---------------------------- MODULE Spec2Model ----------------------------
(***************************************************************************)
(* A model of the CCT backend (kishorecct25/CCT_PROJECT): the relational   *)
(* store behind the FastAPI services, the service functions that change    *)
(* it, and the device API key check that guards the device routes.         *)
(*                                                                         *)
(* Tables are sequences of rows; a row's primary key is its index (the     *)
(* serial id of the ORM models), 0 stands for NULL in a foreign key.       *)
(* A device_id, a username and a token subject are strings; they are       *)
(* modelled as the tuple of their '-'-separated parts, so that             *)
(* str.split('-') and str.startswith("CCT-") are computed, not assumed.    *)
(* Time is datetime.utcnow() in whole seconds (the resolution of a JWT     *)
(* "exp" claim); a handler runs within one second.                         *)
(***************************************************************************)
EXTENDS Integers, Sequences, FiniteSets, TLC

(***************************************************************************)
(* Program constants.                                                      *)
(***************************************************************************)
MAX_PROBES_PER_CCT == 4
API_KEY_ROW_DAYS == 30
DEVICE_KEY_DAYS == 365
USER_TOKEN_MINUTES == 30
HISTORY_LIMIT == 100
CONNECTION_TIMEOUT_SECONDS == 60
SecondsPerDay == 24 * 60 * 60
PUSH_ENABLED == TRUE
EMAIL_ENABLED == FALSE
SMS_ENABLED == FALSE

(***************************************************************************)
(* Bounds of the model.                                                    *)
(***************************************************************************)
MaxTargets == 3
MaxConcTargets == 2
MaxKeys == 2
MaxTicks == 1
MaxUsers == 2
MaxAssoc == 2
MaxReadings == 2
MaxTriggers == 1
MaxUserTokens == 1
MaxNotifications == 2

(***************************************************************************)
(* Inputs.                                                                 *)
(***************************************************************************)
DevA == <<"CCT", "AB12", "CD34">>
DevB == <<"CCT", "0000", "0001">>
DeviceIds == {DevA, DevB}
\* "CCT-AB12" has two parts, "XYZ-AB12-CD34" has the wrong prefix.
MalformedIds == {<<"CCT", "AB12">>, <<"XYZ", "AB12", "CD34">>}
Alice == <<"alice">>
Bob == <<"bob">>
NoName == "none"
\* None where a number is expected: a NULL threshold, an absent temperature.
None == -1
\* Temperatures and thresholds are floats; here they are whole numbers of
\* tenths of a degree, and the 0.5 degrees of the "equal" condition is 5.
HalfDegree == 5
Abs(x) == IF x < 0 THEN -x ELSE x
Temps == {200, 225}
\* Probe ids are strings; n stands for "PRB-n", 0 for no probe id.  One more
\* than a device may hold.
ProbeIds == 1 .. (MAX_PROBES_PER_CCT + 1)
NoProbe == 0
\* Just past the lifetime of an api_keys row, and of a device key.
ClockSteps == {API_KEY_ROW_DAYS * SecondsPerDay + 1, DEVICE_KEY_DAYS * SecondsPerDay + 1}

VARIABLES
    now,            \* datetime.utcnow(), in seconds
    ticks,          \* how often the clock has advanced
    devices,        \* table cct_devices
    api_keys,       \* table api_keys
    probes,         \* table probes
    targets,        \* table target_temperatures
    readings,       \* table temperature_readings
    users,          \* table users
    settings,       \* table notification_settings
    triggers,       \* table custom_triggers
    notifications,  \* table notifications
    owners,         \* table user_device_association
    user_tokens,    \* session tokens the server has signed and handed out
    used_tokens,    \* association tokens presented by a call that linked a device
    sessions,       \* the requests in flight: each one's position and locals
    x_api_key,      \* the X-API-Key header of the last request (NoKey: none)
    last            \* the response to the last completed request

db == <<devices, api_keys, probes, targets, readings, users, settings,
        triggers, notifications, owners>>
vars == <<now, ticks, devices, api_keys, probes, targets, readings, users,
          settings, triggers, notifications, owners, user_tokens, used_tokens,
          sessions, x_api_key, last>>

(***************************************************************************)
(* Requests in flight: the handlers that are modelled step by step run in  *)
(* one of these sessions; each has its own database session, so what it    *)
(* has read is its own copy.                                               *)
(***************************************************************************)
Procs == {1, 2}
IdleSession == [pc |-> "idle", op |-> "none", device_id |-> <<>>, dev |-> 0,
                temp |-> 0, by |-> 0, previous_targets |-> {},
                db_settings |-> 0, max_temp_threshold |-> -1]

(***************************************************************************)
(* Responses.                                                              *)
(***************************************************************************)
NoKey == [sub |-> <<>>, type |-> "none", exp |-> 0, sig |-> "none"]
NoToken == [device_id |-> <<>>, n |-> 0]
\* A mean is kept as the sum and the number of its terms; no terms: None.
NoAverage == [sum |-> 0, n |-> 0]
\* The body of a TemperatureUpdateRequest with nothing in it.
NoRequest == [readings |-> <<>>, average_temperature |-> None]
\* request: the body the response answers (temperature updates only).
NoResp == [op |-> "none", status |-> "none", device_id |-> <<>>, pk |-> 0,
           key |-> NoKey, token |-> NoToken, probe_id |-> NoProbe, user |-> 0,
           temp |-> 0, average |-> NoAverage, rows |-> <<>>, results |-> {},
           request |-> NoRequest]

Resp(op, status, device_id) ==
    [NoResp EXCEPT !.op = op, !.status = status, !.device_id = device_id]

(***************************************************************************)
(* Queries.                                                                *)
(***************************************************************************)
\* db.query(CCTDevice).filter(CCTDevice.device_id == d).first(): the pk, or 0.
DevicePk(d) ==
    IF \E i \in DOMAIN devices : devices[i].device_id = d
    THEN CHOOSE i \in DOMAIN devices : devices[i].device_id = d
    ELSE 0

\* db.query(User).filter(User.id == u).first()
UserExists(u) == u \in DOMAIN users

IsOwner_Never(u, dev) == FALSE

\* user in device.owners / the row of user_device_association
IsOwner(u, dev) == \E i \in DOMAIN owners : owners[i] = [user_id |-> u, device_id |-> dev]

OwnersOf(dev) == {owners[i].user_id : i \in {j \in DOMAIN owners : owners[j].device_id = dev}}

(***************************************************************************)
(* Credentials (utils/auth.py).  A JWT is its claims and whether its       *)
(* signature is the server's.                                              *)
(***************************************************************************)
\* create_access_token: the claims plus exp = utcnow() + expires_delta, signed.
CreateAccessToken(sub, type, lifetime) ==
    [sub |-> sub, type |-> type, exp |-> now + lifetime, sig |-> "valid"]

\* create_device_api_key: {"sub": device_id, "type": "device"}, 365 days.
CreateDeviceApiKey(d) ==
    CreateAccessToken(d, "device", DEVICE_KEY_DAYS * SecondsPerDay)

\* create_user_token: {"sub": username}, 30 minutes.
CreateUserToken(username) ==
    CreateAccessToken(username, "none", USER_TOKEN_MINUTES * 60)

\* jwt.decode: JWTError on a bad signature or an exp in the past.
JwtDecodes(k) == k.sig = "valid" /\ ~(k.exp < now)

\* verify_device_exists
VerifyDeviceExists(d) == DevicePk(d) # 0

VerifyDeviceApiKey_NoSubjectCheck(k, d) ==
    IF ~JwtDecodes(k) THEN FALSE
    ELSE IF k.type # "device" THEN FALSE
    ELSE IF ~VerifyDeviceExists(d) THEN FALSE
    ELSE TRUE

\* verify_device_api_key
VerifyDeviceApiKey(k, d) ==
    IF ~JwtDecodes(k) THEN FALSE
    ELSE IF k.sub # d \/ k.type # "device" THEN FALSE
    ELSE IF ~VerifyDeviceExists(d) THEN FALSE
    ELSE TRUE

(***************************************************************************)
(* The initial state: an empty database, no request in flight.             *)
(***************************************************************************)
Init ==
    /\ now = 0
    /\ ticks = 0
    /\ devices = <<>>
    /\ api_keys = <<>>
    /\ probes = <<>>
    /\ targets = <<>>
    /\ readings = <<>>
    /\ users = <<>>
    /\ settings = <<>>
    /\ triggers = <<>>
    /\ notifications = <<>>
    /\ owners = <<>>
    /\ user_tokens = {}
    /\ used_tokens = {}
    /\ sessions = [p \in Procs |-> IdleSession]
    /\ x_api_key = NoKey
    /\ last = NoResp

\* The clock advances between requests.
Tick(dt) ==
    /\ ticks < MaxTicks
    /\ now' = now + dt
    /\ ticks' = ticks + 1
    /\ UNCHANGED <<db, user_tokens, used_tokens, sessions, x_api_key, last>>

(***************************************************************************)
(* device_service.register_device                                          *)
(***************************************************************************)
\* device_id.startswith("CCT-") and len(device_id.split('-')) == 3
ValidDeviceIdFormat(d) == Len(d) >= 2 /\ d[1] = "CCT" /\ Len(d) = 3

\* generate_association_token: sha256(device_id + 32 random bytes); the random
\* bytes are a fresh value, here the number of the registration.
GenerateAssociationToken(d, n) == [device_id |-> d, n |-> n]

KeyExists(k) == \E i \in DOMAIN api_keys : api_keys[i].key = k

RegisterDevice(d, m, fw, nm) ==
    /\ Len(api_keys) < MaxKeys
    /\ UNCHANGED <<now, ticks, probes, targets, readings, users, settings,
                   triggers, notifications, owners, user_tokens, used_tokens,
                   sessions>>
    /\ IF ~ValidDeviceIdFormat(d)
       THEN /\ last' = Resp("register_device", "value_error", d)
            /\ UNCHANGED <<devices, api_keys>>
       ELSE LET pk == DevicePk(d)
                pk1 == IF pk # 0 THEN pk ELSE Len(devices) + 1
                key == CreateDeviceApiKey(d)
            IN  /\ devices' =
                     IF pk # 0
                     THEN [devices EXCEPT ![pk] =
                             [@ EXCEPT !.name = IF nm # NoName THEN nm ELSE @,
                                       !.firmware_version = fw,
                                       !.last_connected = now,
                                       !.is_active = TRUE]]
                     ELSE Append(devices,
                             [device_id |-> d, name |-> nm, model |-> m,
                              firmware_version |-> fw, is_active |-> TRUE,
                              last_connected |-> now])
                \* api_keys.key is UNIQUE: the INSERT of a key that is already
                \* there raises IntegrityError, after the device row is committed.
                /\ IF KeyExists(key)
                   THEN /\ api_keys' = api_keys
                        /\ last' = Resp("register_device", "integrity_error", d)
                   ELSE /\ api_keys' = Append(api_keys,
                               [key |-> key, device_id |-> pk1,
                                expires_at |-> now + API_KEY_ROW_DAYS * SecondsPerDay,
                                is_active |-> TRUE])
                        /\ last' = [Resp("register_device", "ok", d) EXCEPT
                                      !.pk = pk1, !.key = key,
                                      !.token = GenerateAssociationToken(d, Len(api_keys) + 1)]

(***************************************************************************)
(* user_service.create_user                                                *)
(***************************************************************************)
CreateUser(username, email, phone) ==
    /\ Len(users) < MaxUsers
    /\ UNCHANGED <<now, ticks, devices, api_keys, probes, targets, readings,
                   triggers, notifications, owners, user_tokens, used_tokens,
                   sessions>>
    /\ IF \E i \in DOMAIN users : users[i].username = username \/ users[i].email = email
       THEN /\ last' = Resp("create_user", "value_error", <<>>)
            /\ UNCHANGED <<users, settings>>
       ELSE /\ users' = Append(users, [username |-> username, email |-> email,
                                        phone_number |-> phone, is_active |-> TRUE])
            /\ settings' = Append(settings,
                   [user_id |-> Len(users) + 1, email_enabled |-> TRUE,
                    sms_enabled |-> (phone # NoName), push_enabled |-> TRUE,
                    max_temp_threshold |-> None, min_temp_threshold |-> None,
                    connection_alerts |-> TRUE])
            /\ last' = [Resp("create_user", "ok", <<>>) EXCEPT !.user = Len(users) + 1]

(***************************************************************************)
(* device_service.associate_device_with_user                               *)
(***************************************************************************)
AssociateDeviceWithUser(d, u, tok) ==
    /\ Len(owners) < MaxAssoc
    /\ UNCHANGED <<now, ticks, devices, api_keys, probes, targets, readings,
                   users, settings, triggers, notifications, user_tokens, sessions>>
    /\ LET dev == DevicePk(d)
       IN  IF dev = 0 \/ ~UserExists(u)
           THEN /\ last' = [Resp("associate_device_with_user", "false", d) EXCEPT
                              !.user = u, !.token = tok]
                /\ UNCHANGED <<owners, used_tokens>>
           ELSE IF IsOwner(u, dev)
           THEN /\ last' = [Resp("associate_device_with_user", "true", d) EXCEPT
                              !.user = u, !.token = tok, !.pk = dev]
                /\ UNCHANGED <<owners, used_tokens>>
           ELSE /\ owners' = Append(owners, [user_id |-> u, device_id |-> dev])
                /\ used_tokens' = used_tokens \cup {tok}
                /\ last' = [Resp("associate_device_with_user", "true", d) EXCEPT
                              !.user = u, !.token = tok, !.pk = dev]

(***************************************************************************)
(* Target temperatures: temperature_service.set_target_temperature and     *)
(* settings_service.update_target_temperature_from_device / _from_cloud.   *)
(* The three share their body: query the device's active rows, set each    *)
(* is_active = False, commit, add a new active row, commit.                *)
(***************************************************************************)
\* .filter(device_id == device.id, is_active == True).all()
ActiveTargetsOf(ts, dev) ==
    {i \in DOMAIN ts : ts[i].device_id = dev /\ ts[i].is_active}

\* for target in previous_targets: target.is_active = False; db.commit()
DeactivateTargets(ts, S) ==
    [i \in DOMAIN ts |-> IF i \in S THEN [ts[i] EXCEPT !.is_active = FALSE] ELSE ts[i]]

DeactivatePreviousTargets_Skip(ts, dev) == ts

DeactivatePreviousTargets_Delete(ts, dev) ==
    SelectSeq(ts, LAMBDA r : ~(r.device_id = dev /\ r.is_active))

DeactivatePreviousTargets(ts, dev) == DeactivateTargets(ts, ActiveTargetsOf(ts, dev))

\* models.TargetTemperature(..., timestamp=datetime.utcnow(), is_active=True)
NewTarget(dev, t, by) ==
    [temperature |-> t, device_id |-> dev, set_by_user_id |-> by,
     timestamp |-> now, is_active |-> TRUE]

\* target_temperatures.set_by_user_id REFERENCES users.id
SetByUserOk(by) == by = 0 \/ UserExists(by)

\* get_latest_target_temperature: the active rows of the device, by timestamp
\* descending, .first(); rows of one timestamp come in no defined order, so this
\* is the set of rows the query may return (empty: None).
LatestTargetCandidates(ts, d) ==
    LET dev == DevicePk(d)
        act == ActiveTargetsOf(ts, dev)
    IN  IF dev = 0 THEN {}
        ELSE {i \in act : \A j \in act : ts[j].timestamp <= ts[i].timestamp}

\* get_device_settings_history: the device's rows by timestamp descending, the
\* first `limit` of them (as a set of primary keys).
GetDeviceSettingsHistory(ts, d, limit) ==
    LET dev == DevicePk(d)
        all == {i \in DOMAIN ts : ts[i].device_id = dev}
    IN  IF dev = 0 THEN {}
        ELSE IF Cardinality(all) <= limit THEN all
        ELSE CHOOSE S \in SUBSET all :
                /\ Cardinality(S) = limit
                /\ \A i \in S, j \in all \ S : ts[j].timestamp <= ts[i].timestamp

SetTargetTemperature(d, t, by) ==
    /\ Len(targets) < MaxTargets
    /\ UNCHANGED <<now, ticks, devices, api_keys, probes, readings, users, settings,
                   triggers, notifications, owners, user_tokens, used_tokens, sessions>>
    /\ LET dev == DevicePk(d)
       IN  IF dev = 0
           THEN /\ last' = Resp("set_target_temperature", "value_error", d)
                /\ UNCHANGED targets
           ELSE IF ~SetByUserOk(by)
           \* the deactivation is committed before the INSERT fails
           THEN /\ targets' = DeactivatePreviousTargets(targets, dev)
                /\ last' = Resp("set_target_temperature", "integrity_error", d)
           ELSE /\ targets' = Append(DeactivatePreviousTargets(targets, dev),
                                     NewTarget(dev, t, by))
                /\ last' = [Resp("set_target_temperature", "ok", d) EXCEPT
                              !.pk = Len(targets) + 1, !.user = by, !.temp = t]

UpdateTargetTemperatureFromDevice(d, t) ==
    /\ Len(targets) < MaxTargets
    /\ UNCHANGED <<now, ticks, api_keys, probes, readings, users, settings,
                   triggers, notifications, owners, user_tokens, used_tokens, sessions>>
    /\ LET dev == DevicePk(d)
       IN  IF dev = 0
           THEN /\ last' = Resp("update_target_temperature_from_device", "value_error", d)
                /\ UNCHANGED <<targets, devices>>
           ELSE /\ targets' = Append(DeactivatePreviousTargets(targets, dev),
                                     NewTarget(dev, t, 0))
                /\ devices' = [devices EXCEPT ![dev].last_connected = now]
                /\ last' = [Resp("update_target_temperature_from_device", "ok", d)
                              EXCEPT !.pk = Len(targets) + 1, !.temp = t]

UpdateTargetTemperatureFromCloud(d, t, u) ==
    /\ Len(targets) < MaxTargets
    /\ UNCHANGED <<now, ticks, devices, api_keys, probes, readings, users, settings,
                   triggers, notifications, owners, user_tokens, used_tokens, sessions>>
    /\ LET dev == DevicePk(d)
       IN  IF dev = 0 \/ ~IsOwner(u, dev)
           THEN /\ last' = [Resp("update_target_temperature_from_cloud", "value_error", d)
                              EXCEPT !.user = u]
                /\ UNCHANGED targets
           ELSE /\ targets' = Append(DeactivatePreviousTargets(targets, dev),
                                     NewTarget(dev, t, u))
                /\ last' = [Resp("update_target_temperature_from_cloud", "ok", d)
                              EXCEPT !.pk = Len(targets) + 1, !.user = u, !.temp = t]

(***************************************************************************)
(* SpecTarget: target-setting requests served one after the other.         *)
(***************************************************************************)
\* The user ids requests name: user 1 exists once alice has signed up.
UserIds == {1}

NextTarget ==
    \/ \E d \in DeviceIds : RegisterDevice(d, "CCT-100", "1.0", NoName) /\ x_api_key' = NoKey
    \/ CreateUser(Alice, "alice@example.com", NoName) /\ x_api_key' = NoKey
    \/ \E d \in DeviceIds, u \in UserIds : AssociateDeviceWithUser(d, u, NoToken) /\ x_api_key' = NoKey
    \/ \E d \in DeviceIds, t \in Temps, by \in {0} \cup UserIds : SetTargetTemperature(d, t, by) /\ x_api_key' = NoKey
    \/ \E d \in DeviceIds, t \in Temps : UpdateTargetTemperatureFromDevice(d, t) /\ x_api_key' = NoKey
    \/ \E d \in DeviceIds, t \in Temps, u \in UserIds : UpdateTargetTemperatureFromCloud(d, t, u) /\ x_api_key' = NoKey

SpecTarget == Init /\ [][NextTarget]_vars

ActiveCount(d) == Cardinality(ActiveTargetsOf(targets, d))

\* C1: after any sequence of completed target-setting calls, on any devices and
\* in any order, every device has at most one TargetTemperature row with
\* is_active = true.
C1_AtMostOneActiveTarget ==
    \A dev \in DOMAIN devices : ActiveCount(dev) <= 1

\* C1's case: both devices have had their target set more than once in all, and
\* each has its one active row.
C1_Witness ==
    /\ Len(devices) = 2
    /\ \A dev \in DOMAIN devices : ActiveCount(dev) = 1
    /\ \E i \in DOMAIN targets : ~targets[i].is_active

TargetOps == {"set_target_temperature", "update_target_temperature_from_device",
              "update_target_temperature_from_cloud"}

\* The step is a target-setting call that returned its new row.
SetsTarget ==
    /\ Len(targets') = Len(targets) + 1
    /\ last'.op \in TargetOps
    /\ last'.status = "ok"

\* No step deletes a target row, changes its temperature or device, or turns an
\* inactive row active again.
TargetRowsKept ==
    /\ Len(targets') >= Len(targets)
    /\ \A i \in DOMAIN targets :
          \/ targets'[i] = targets[i]
          \/ targets[i].is_active /\ targets'[i] = [targets[i] EXCEPT !.is_active = FALSE]

\* After setting t for d: get_latest_target_temperature returns exactly the new
\* row, with temperature t, and the row that was the latest before is still in
\* the device's history, inactive.
LatestIsNewTarget(d, t) ==
    LET n == Len(targets')
    IN  /\ LatestTargetCandidates(targets', d) = {n}
        /\ targets'[n].temperature = t
        /\ \A i \in LatestTargetCandidates(targets, d) :
              /\ i \in GetDeviceSettingsHistory(targets', d, HISTORY_LIMIT)
              /\ ~targets'[i].is_active
              /\ targets'[i].temperature = targets[i].temperature

\* C3: target-temperature history is preserved: no operation deletes a
\* TargetTemperature row or turns an inactive row active again; after setting t1
\* and then t2 for a device, get_latest_target_temperature returns exactly the
\* row with t2 and the t1 row is still in the device's history, inactive.
C3_HistoryPreserved ==
    [][ /\ TargetRowsKept
        /\ Len(targets') > Len(targets) => SetsTarget
        /\ SetsTarget => LatestIsNewTarget(last'.device_id, last'.temp)
      ]_vars

\* C3's case: 225 was set and then 200 for one device; 200 is the latest and the
\* 225 row is in the history, inactive.
C3_Witness ==
    \E i, j \in DOMAIN targets :
        /\ i < j
        /\ targets[i].device_id = targets[j].device_id
        /\ targets[i].temperature = 225 /\ ~targets[i].is_active
        /\ targets[j].temperature = 200 /\ targets[j].is_active
        /\ LatestTargetCandidates(targets, devices[targets[j].device_id].device_id) = {j}
        /\ i \in GetDeviceSettingsHistory(targets, devices[targets[j].device_id].device_id,
                                          HISTORY_LIMIT)

(***************************************************************************)
(* SpecConc: the target-setting handlers step by step, two requests at a   *)
(* time.  A handler reads the device and its active rows, then commits     *)
(* their deactivation, then commits the new active row.                    *)
(***************************************************************************)
InFlight == {p \in Procs : sessions[p].pc # "idle"}

\* The handler up to and including previous_targets = (...).all()
TargetRead(p, op, d, t, by) ==
    /\ sessions[p].pc = "idle"
    /\ op \in TargetOps
    /\ op = "update_target_temperature_from_device" => by = 0
    /\ Len(targets) + Cardinality(InFlight) < MaxConcTargets
    /\ UNCHANGED <<now, ticks, db, user_tokens, used_tokens>>
    /\ LET dev == DevicePk(d)
       IN  IF dev = 0 \/ (op = "update_target_temperature_from_cloud" /\ ~IsOwner(by, dev))
           THEN /\ last' = [Resp(op, "value_error", d) EXCEPT !.user = by]
                /\ UNCHANGED sessions
           ELSE /\ sessions' = [sessions EXCEPT ![p] =
                       [IdleSession EXCEPT
                          !.pc = "read", !.op = op, !.device_id = d, !.dev = dev,
                          !.temp = t, !.by = by,
                          !.previous_targets = ActiveTargetsOf(targets, dev)]]
                /\ UNCHANGED last

\* for target in previous_targets: target.is_active = False; db.commit()
TargetDeactivate(p) ==
    /\ sessions[p].pc = "read"
    /\ targets' = DeactivateTargets(targets, sessions[p].previous_targets)
    /\ sessions' = [sessions EXCEPT ![p].pc = "deactivated"]
    /\ UNCHANGED <<now, ticks, devices, api_keys, probes, readings, users, settings,
                   triggers, notifications, owners, user_tokens, used_tokens, last>>

\* db.add(db_target); db.commit(), and what follows it in the handler
TargetInsert(p) ==
    /\ sessions[p].pc = "deactivated"
    /\ sessions' = [sessions EXCEPT ![p] = IdleSession]
    /\ UNCHANGED <<now, ticks, api_keys, probes, readings, users, settings,
                   triggers, notifications, owners, user_tokens, used_tokens>>
    /\ LET r == sessions[p]
       IN  IF ~SetByUserOk(r.by)
           THEN /\ last' = Resp(r.op, "integrity_error", r.device_id)
                /\ UNCHANGED <<targets, devices>>
           ELSE /\ targets' = Append(targets, NewTarget(r.dev, r.temp, r.by))
                /\ devices' = IF r.op = "update_target_temperature_from_device"
                              THEN [devices EXCEPT ![r.dev].last_connected = now]
                              ELSE devices
                /\ last' = [Resp(r.op, "ok", r.device_id) EXCEPT
                              !.pk = Len(targets) + 1, !.user = r.by, !.temp = r.temp]

NextConc ==
    \/ \E d \in DeviceIds : RegisterDevice(d, "CCT-100", "1.0", NoName) /\ x_api_key' = NoKey
    \/ CreateUser(Alice, "alice@example.com", NoName) /\ x_api_key' = NoKey
    \/ \E d \in DeviceIds, u \in UserIds : AssociateDeviceWithUser(d, u, NoToken) /\ x_api_key' = NoKey
    \/ \E p \in Procs, op \in TargetOps, d \in DeviceIds, t \in Temps, by \in {0} \cup UserIds :
          TargetRead(p, op, d, t, by) /\ x_api_key' = NoKey
    \/ \E p \in Procs : TargetDeactivate(p) /\ x_api_key' = NoKey
    \/ \E p \in Procs : TargetInsert(p) /\ x_api_key' = NoKey

SpecConc == Init /\ [][NextConc]_vars

\* C2: when two target-setting calls for the same device run concurrently,
\* interleaved at the steps 'read the active rows', 'deactivate them and commit',
\* 'insert the new active row and commit', no reachable state has two
\* TargetTemperature rows with is_active = true for that device.
C2_NoTwoActiveWhenConcurrent ==
    \A dev \in DOMAIN devices :
        Cardinality({i \in DOMAIN targets :
                        targets[i].device_id = dev /\ targets[i].is_active}) < 2

(***************************************************************************)
(* device_service.register_probe                                           *)
(***************************************************************************)
\* db.query(Probe).filter(Probe.probe_id == p).first(): the pk, or 0.
ProbePk(p) ==
    IF \E i \in DOMAIN probes : probes[i].probe_id = p
    THEN CHOOSE i \in DOMAIN probes : probes[i].probe_id = p
    ELSE 0

\* db.query(Probe).filter(Probe.device_id == db_device.id).count()
ProbeCount(dev) == Cardinality({i \in DOMAIN probes : probes[i].device_id = dev})

AtCapacity_OffByOne(probe_count) == probe_count > MAX_PROBES_PER_CCT

\* if probe_count >= settings.MAX_PROBES_PER_CCT: raise ValueError
AtCapacity(probe_count) == probe_count >= MAX_PROBES_PER_CCT

RegisterProbe(p, m, d, nm) ==
    /\ UNCHANGED <<now, ticks, devices, api_keys, targets, readings, users, settings,
                   triggers, notifications, owners, user_tokens, used_tokens, sessions>>
    /\ LET dev == DevicePk(d)
           pp == ProbePk(p)
       IN  IF dev = 0
           THEN /\ last' = [Resp("register_probe", "value_error", d) EXCEPT !.probe_id = p]
                /\ UNCHANGED probes
           ELSE IF pp # 0
           \* a known probe_id: the row moves to this device, no count is taken
           THEN /\ probes' = [probes EXCEPT ![pp] =
                      [@ EXCEPT !.name = IF nm # NoName THEN nm ELSE @,
                                !.device_id = dev,
                                !.is_connected = TRUE,
                                !.last_connected = now]]
                /\ last' = [Resp("register_probe", "ok", d) EXCEPT !.probe_id = p, !.pk = pp]
           ELSE IF AtCapacity(ProbeCount(dev))
           THEN /\ last' = [Resp("register_probe", "capacity_error", d) EXCEPT !.probe_id = p]
                /\ UNCHANGED probes
           ELSE /\ probes' = Append(probes,
                      [probe_id |-> p, name |-> nm, model |-> m, device_id |-> dev,
                       is_connected |-> TRUE, last_connected |-> now])
                /\ last' = [Resp("register_probe", "ok", d) EXCEPT
                              !.probe_id = p, !.pk = Len(probes) + 1]

(***************************************************************************)
(* SpecProbe: devices and probes register, in any order.                   *)
(***************************************************************************)
NextProbe ==
    \/ \E d \in DeviceIds : RegisterDevice(d, "CCT-100", "1.0", NoName) /\ x_api_key' = NoKey
    \/ \E p \in ProbeIds, d \in DeviceIds : RegisterProbe(p, "P-1", d, NoName) /\ x_api_key' = NoKey

SpecProbe == Init /\ [][NextProbe]_vars

\* C4: in every state reachable by any sequence of register_probe calls, new
\* probes and re-registrations of a probe_id under another device alike, no
\* device has more than MAX_PROBES_PER_CCT (4) probes.
C4_ProbesPerDeviceBounded ==
    \A dev \in DOMAIN devices : ProbeCount(dev) <= MAX_PROBES_PER_CCT

\* The step is a completed call of handler op (the clock moves between calls).
CallStep(op) == last'.op = op /\ now' = now

\* C5: register_probe with a probe_id not yet in the store, on a device that
\* already holds 4 probes, fails with a capacity error and persists nothing: the
\* probes and every probe's device are the same after the call as before it.
C5_FullDeviceRejectsNewProbe ==
    [][ ( /\ CallStep("register_probe")
          /\ ProbePk(last'.probe_id) = 0
          /\ DevicePk(last'.device_id) # 0
          /\ ProbeCount(DevicePk(last'.device_id)) = MAX_PROBES_PER_CCT )
        => ( /\ last'.status = "capacity_error"
             /\ probes' = probes
             /\ db' = db )
      ]_vars

\* C5's case: the last call was refused for capacity; its probe is not in the
\* store, the device it named holds 4 probes, another probe_id is still free.
C5_Witness ==
    /\ last.op = "register_probe"
    /\ last.status = "capacity_error"
    /\ ProbePk(last.probe_id) = 0
    /\ ProbeCount(DevicePk(last.device_id)) = MAX_PROBES_PER_CCT
    /\ Len(probes) = MAX_PROBES_PER_CCT

(***************************************************************************)
(* user_service.update_notification_settings / create_custom_trigger       *)
(***************************************************************************)
\* get_notification_settings: the pk of the user's row, or 0.
SettingsPk(u) ==
    IF \E i \in DOMAIN settings : settings[i].user_id = u
    THEN CHOOSE i \in DOMAIN settings : settings[i].user_id = u
    ELSE 0

\* NotificationSetting(user_id=u): the column defaults.
DefaultSetting(u) ==
    [user_id |-> u, email_enabled |-> TRUE, sms_enabled |-> FALSE,
     push_enabled |-> TRUE, max_temp_threshold |-> None,
     min_temp_threshold |-> None, connection_alerts |-> TRUE]

\* An Optional[bool] of a request: <<>> is None, <<b>> is the value b.
Unset == <<>>

\* NotificationSettingUpdate with no field given; thresholds use None.
NoSettingsUpdate ==
    [email_enabled |-> Unset, sms_enabled |-> Unset, push_enabled |-> Unset,
     connection_alerts |-> Unset, max_temp_threshold |-> None,
     min_temp_threshold |-> None]

\* The route passes current_user.id, a user that exists.
UpdateNotificationSettings(u, settings_update) ==
    /\ UserExists(u)
    /\ UNCHANGED <<now, ticks, devices, api_keys, probes, targets, readings, users,
                   triggers, notifications, owners, user_tokens, used_tokens, sessions>>
    /\ LET sid == SettingsPk(u)
           sid1 == IF sid # 0 THEN sid ELSE Len(settings) + 1
           rows == IF sid # 0 THEN settings ELSE Append(settings, DefaultSetting(u))
           upd == settings_update
       IN  /\ settings' = [rows EXCEPT ![sid1] =
                  [@ EXCEPT
                     !.email_enabled = IF upd.email_enabled # Unset
                                       THEN upd.email_enabled[1] ELSE @,
                     !.sms_enabled = IF upd.sms_enabled # Unset
                                     THEN upd.sms_enabled[1] ELSE @,
                     !.push_enabled = IF upd.push_enabled # Unset
                                      THEN upd.push_enabled[1] ELSE @,
                     !.max_temp_threshold = IF upd.max_temp_threshold # None
                                            THEN upd.max_temp_threshold ELSE @,
                     !.min_temp_threshold = IF upd.min_temp_threshold # None
                                            THEN upd.min_temp_threshold ELSE @,
                     !.connection_alerts = IF upd.connection_alerts # Unset
                                           THEN upd.connection_alerts[1] ELSE @]]
           /\ last' = [Resp("update_notification_settings", "ok", <<>>) EXCEPT
                         !.user = u, !.pk = sid1]

CreateCustomTrigger(u, cond, thr, dev, pp, active) ==
    /\ Len(triggers) < MaxTriggers
    /\ UserExists(u)
    /\ UNCHANGED <<now, ticks, devices, api_keys, probes, targets, readings, users,
                   settings, notifications, owners, user_tokens, used_tokens, sessions>>
    /\ IF \/ SettingsPk(u) = 0
          \/ dev # 0 /\ (dev \notin DOMAIN devices \/ ~IsOwner(u, dev))
          \/ pp # 0 /\ pp \notin DOMAIN probes
       THEN /\ last' = [Resp("create_custom_trigger", "value_error", <<>>) EXCEPT !.user = u]
            /\ UNCHANGED triggers
       ELSE /\ triggers' = Append(triggers,
                  [notification_setting_id |-> SettingsPk(u), condition_type |-> cond,
                   threshold_value |-> thr, device_id |-> dev, probe_id |-> pp,
                   is_active |-> active])
            /\ last' = [Resp("create_custom_trigger", "ok", <<>>) EXCEPT
                          !.user = u, !.pk = Len(triggers) + 1]

(***************************************************************************)
(* temperature_service.store_temperature_reading and                       *)
(* process_temperature_update.  One call commits several times, so the     *)
(* tables it writes are threaded through as a record.                      *)
(***************************************************************************)
Tables == [devices |-> devices, probes |-> probes, readings |-> readings,
           notifications |-> notifications, ok |-> TRUE]

TriggerFires_Tolerant(i, dev, pp, t) ==
    LET trigger == triggers[i]
    IN  /\ trigger.device_id = dev
        /\ trigger.is_active
        /\ trigger.probe_id # 0 => (pp # 0 /\ trigger.probe_id = pp)
        /\ \/ trigger.condition_type = "above" /\ t > trigger.threshold_value
           \/ trigger.condition_type = "below" /\ t < trigger.threshold_value
           \/ /\ trigger.condition_type = "equal"
              /\ Abs(t - trigger.threshold_value) < HalfDegree

\* The inline block of store_temperature_reading: does trigger i fire?
TriggerFires(i, dev, pp, t) ==
    LET trigger == triggers[i]
    IN  /\ trigger.device_id = dev
        /\ trigger.is_active
        /\ trigger.probe_id # 0 => (pp # 0 /\ trigger.probe_id = pp)
        /\ \/ trigger.condition_type = "above" /\ t > trigger.threshold_value
           \/ trigger.condition_type = "below" /\ t < trigger.threshold_value
           \/ trigger.condition_type = "equal" /\ t = trigger.threshold_value

TriggerNotification(i, dev, pp) ==
    [user_id |-> settings[triggers[i].notification_setting_id].user_id,
     title |-> <<"Temperature", triggers[i].condition_type, triggers[i].threshold_value>>,
     notification_type |-> "temperature_alert", channel |-> "app",
     device_id |-> dev, probe_id |-> pp, is_read |-> FALSE, created_at |-> now]

\* for trigger in triggers: ... db.add(notification); db.commit()
RECURSIVE NotifyTriggers(_, _, _, _, _)
NotifyTriggers(ns, i, dev, pp, t) ==
    IF i > Len(triggers) THEN ns
    ELSE NotifyTriggers(IF TriggerFires(i, dev, pp, t)
                        THEN Append(ns, TriggerNotification(i, dev, pp))
                        ELSE ns,
                        i + 1, dev, pp, t)

StoreTemperatureReading_StoreFirst(st, d, t, p, is_average) ==
    LET dev == DevicePk(d)
        pp == IF p # NoProbe THEN ProbePk(p) ELSE 0
    IN  IF dev = 0 THEN [st EXCEPT !.ok = FALSE]
        ELSE IF p # NoProbe /\ pp = 0
        THEN [st EXCEPT !.ok = FALSE,
                        !.readings = Append(@, [temperature |-> t, device_id |-> dev,
                                                probe_id |-> 0, is_average |-> is_average,
                                                timestamp |-> now]),
                        !.devices = [@ EXCEPT ![dev].last_connected = now]]
        ELSE [st EXCEPT
                !.readings = Append(@, [temperature |-> t, device_id |-> dev,
                                        probe_id |-> pp, is_average |-> is_average,
                                        timestamp |-> now]),
                !.devices = [@ EXCEPT ![dev].last_connected = now],
                !.probes = IF pp # 0
                           THEN [@ EXCEPT ![pp].is_connected = TRUE,
                                          ![pp].last_connected = now]
                           ELSE @,
                !.notifications = NotifyTriggers(@, 1, dev, pp, t)]

StoreTemperatureReading(st, d, t, p, is_average) ==
    LET dev == DevicePk(d)
        pp == IF p # NoProbe THEN ProbePk(p) ELSE 0
    IN  IF dev = 0 \/ (p # NoProbe /\ pp = 0)
        THEN [st EXCEPT !.ok = FALSE]
        ELSE [st EXCEPT
                !.readings = Append(@, [temperature |-> t, device_id |-> dev,
                                        probe_id |-> pp, is_average |-> is_average,
                                        timestamp |-> now]),
                !.devices = [@ EXCEPT ![dev].last_connected = now],
                !.probes = IF pp # 0
                           THEN [@ EXCEPT ![pp].is_connected = TRUE,
                                          ![pp].last_connected = now]
                           ELSE @,
                !.notifications = NotifyTriggers(@, 1, dev, pp, t)]

RECURSIVE StoreReadings_Rollback(_, _, _)
StoreReadings_Rollback(st, d, rds) ==
    IF rds = <<>> \/ ~st.ok THEN st
    ELSE LET rest == StoreReadings_Rollback(
                        IF Head(rds).temperature # None
                        THEN StoreTemperatureReading(st, d, Head(rds).temperature,
                                                     Head(rds).probe_id, FALSE)
                        ELSE st,
                        d, Tail(rds))
         IN  IF rest.ok THEN rest ELSE [st EXCEPT !.ok = FALSE]

RECURSIVE StoreReadings_Reversed(_, _, _)
StoreReadings_Reversed(st, d, rds) ==
    IF rds = <<>> \/ ~st.ok THEN st
    ELSE LET r == rds[Len(rds)]
         IN  StoreReadings_Reversed(IF r.temperature # None
                                    THEN StoreTemperatureReading(st, d, r.temperature,
                                                                 r.probe_id, FALSE)
                                    ELSE st,
                                    d, SubSeq(rds, 1, Len(rds) - 1))

\* for reading in update.readings: a ValueError ends the call, what the
\* earlier readings committed stays.
RECURSIVE StoreReadings(_, _, _)
StoreReadings(st, d, rds) ==
    IF rds = <<>> \/ ~st.ok THEN st
    ELSE StoreReadings(IF Head(rds).temperature # None
                       THEN StoreTemperatureReading(st, d, Head(rds).temperature,
                                                    Head(rds).probe_id, FALSE)
                       ELSE st,
                       d, Tail(rds))

ProcessTemperatureUpdate(d, rds, average_temperature) ==
    /\ Len(readings) + Len(SelectSeq(rds, LAMBDA r : r.temperature # None))
          + (IF average_temperature # None THEN 1 ELSE 0) <= MaxReadings
    /\ UNCHANGED <<now, ticks, api_keys, targets, users, settings, triggers, owners,
                   user_tokens, used_tokens, sessions>>
    /\ LET st1 == StoreReadings(Tables, d, rds)
           st2 == IF st1.ok /\ average_temperature # None
                  THEN StoreTemperatureReading(st1, d, average_temperature, NoProbe, TRUE)
                  ELSE st1
           latest == LatestTargetCandidates(targets, d)
           request == [readings |-> rds, average_temperature |-> average_temperature]
       IN  /\ devices' = st2.devices
           /\ probes' = st2.probes
           /\ readings' = st2.readings
           /\ notifications' = st2.notifications
           /\ IF ~st2.ok
              THEN last' = [Resp("process_temperature_update", "value_error", d) EXCEPT
                              !.request = request]
              ELSE \E tt \in IF latest = {} THEN {None}
                             ELSE {targets[i].temperature : i \in latest} :
                      last' = [Resp("process_temperature_update", "ok", d) EXCEPT
                                 !.temp = tt, !.request = request]

(***************************************************************************)
(* SpecIngest: a user, a device, a probe, thresholds and triggers, and the *)
(* device's temperature updates.                                           *)
(***************************************************************************)
Thresholds == {200}
ReadingInputs == [probe_id : {NoProbe, 1, 2}, temperature : Temps \cup {None}]
Batches == {<<>>} \cup {<<r>> : r \in ReadingInputs}

NextIngest ==
    \/ RegisterDevice(DevA, "CCT-100", "1.0", NoName) /\ x_api_key' = NoKey
    \/ RegisterProbe(1, "P-1", DevA, NoName) /\ x_api_key' = NoKey
    \/ CreateUser(Alice, "alice@example.com", NoName) /\ x_api_key' = NoKey
    \/ AssociateDeviceWithUser(DevA, 1, NoToken) /\ x_api_key' = NoKey
    \/ \E m \in Thresholds :
          UpdateNotificationSettings(1, [NoSettingsUpdate EXCEPT !.max_temp_threshold = m])
             /\ x_api_key' = NoKey
    \/ \E dev \in {0, 1}, pp \in {0, 1}, m \in Thresholds :
          CreateCustomTrigger(1, "above", m, dev, pp, TRUE) /\ x_api_key' = NoKey
    \/ \E rds \in Batches, avg \in Temps \cup {None} :
          ProcessTemperatureUpdate(DevA, rds, avg) /\ x_api_key' = NoKey

SpecIngest == Init /\ [][NextIngest]_vars

\* send_notification: a channel the user has switched on and that delivers.
Deliverable(s) ==
    \/ s.email_enabled /\ EMAIL_ENABLED
    \/ s.sms_enabled /\ SMS_ENABLED
    \/ s.push_enabled /\ PUSH_ENABLED

\* Users who own device dev, have max_temp_threshold set below t and a
\* deliverable channel.
OwnersAlertedAbove(dev, t) ==
    {u \in OwnersOf(dev) :
        /\ SettingsPk(u) # 0
        /\ settings[SettingsPk(u)].max_temp_threshold # None
        /\ t > settings[SettingsPk(u)].max_temp_threshold
        /\ Deliverable(settings[SettingsPk(u)])}

\* C6: when a device owned by U, whose max_temp_threshold is M and who has a
\* deliverable channel, submits a reading above M through
\* process_temperature_update, a Notification for U of type temperature_alert
\* titled "High Temperature Alert" exists when the call returns.
C6_HighTemperatureAlertOnIngest ==
    [][ ( /\ CallStep("process_temperature_update")
          /\ Len(readings') > Len(readings) )
        => \A i \in (DOMAIN readings') \ (DOMAIN readings) :
             \A u \in OwnersAlertedAbove(readings'[i].device_id, readings'[i].temperature) :
               \E n \in DOMAIN notifications' :
                  /\ notifications'[n].user_id = u
                  /\ notifications'[n].notification_type = "temperature_alert"
                  /\ notifications'[n].title = <<"High Temperature Alert">>
      ]_vars

(***************************************************************************)
(* The device routes: each one checks the X-API-Key header before it calls *)
(* its service.                                                            *)
(***************************************************************************)
Unauthorized(op, d) ==
    /\ last' = Resp(op, "401", d)
    /\ UNCHANGED <<db, now, ticks, user_tokens, used_tokens, sessions>>

\* if not x_api_key or not verify_device_api_key(db, x_api_key, device_id):
\*     raise HTTPException(status_code=401)
Guarded(op, k, d, Handler) ==
    /\ x_api_key' = k
    /\ IF k # NoKey /\ VerifyDeviceApiKey(k, d) THEN Handler ELSE Unauthorized(op, d)

\* device_service.update_device_connection_status; the route answers 404 on None.
UpdateDeviceConnection(d, is_connected) ==
    /\ UNCHANGED <<now, ticks, api_keys, probes, targets, readings, users, settings,
                   triggers, notifications, owners, user_tokens, used_tokens, sessions>>
    /\ LET dev == DevicePk(d)
       IN  IF dev = 0
           THEN /\ last' = Resp("update_device_connection", "404", d)
                /\ UNCHANGED devices
           ELSE /\ devices' = [devices EXCEPT ![dev].last_connected =
                                  IF is_connected THEN now ELSE @]
                /\ last' = [Resp("update_device_connection", "ok", d) EXCEPT !.pk = dev]

\* device_service.update_probe_connection_status: the probe is looked up by
\* probe_id alone; the route answers 404 on None.
UpdateProbeConnection(d, p, is_connected) ==
    /\ UNCHANGED <<now, ticks, devices, api_keys, targets, readings, users, settings,
                   triggers, notifications, owners, user_tokens, used_tokens, sessions>>
    /\ LET pp == ProbePk(p)
       IN  IF pp = 0
           THEN /\ last' = [Resp("update_probe_connection", "404", d) EXCEPT !.probe_id = p]
                /\ UNCHANGED probes
           ELSE /\ probes' = [probes EXCEPT
                                ![pp].is_connected = is_connected,
                                ![pp].last_connected = IF is_connected THEN now ELSE @]
                /\ last' = [Resp("update_probe_connection", "ok", d) EXCEPT
                              !.probe_id = p, !.pk = pp]

\* settings_service.sync_device_settings: reads the settings of the device and
\* stamps device.last_connected.
SyncDeviceSettings(d) ==
    /\ UNCHANGED <<now, ticks, api_keys, probes, targets, readings, users, settings,
                   triggers, notifications, owners, user_tokens, used_tokens, sessions>>
    /\ LET dev == DevicePk(d)
       IN  IF dev = 0
           THEN /\ last' = Resp("sync_device_settings", "value_error", d)
                /\ UNCHANGED devices
           ELSE /\ devices' = [devices EXCEPT ![dev].last_connected = now]
                /\ last' = [Resp("sync_device_settings", "ok", d) EXCEPT !.pk = dev]

\* The routes that only query.
ReadOps == {"get_device_probes", "get_device_settings_history",
            "get_temperature_history", "get_probe_temperature_history",
            "get_target_temperature", "calculate_average_temperature"}

ReadRoute(op, d) ==
    /\ last' = Resp(op, "ok", d)
    /\ UNCHANGED <<db, now, ticks, user_tokens, used_tokens, sessions>>

GuardedOps == ReadOps \cup
    {"register_probe", "update_device_connection", "update_probe_connection",
     "sync_device_settings", "update_target_temperature_from_device",
     "process_temperature_update", "set_target_temperature"}

(***************************************************************************)
(* SpecAuth: devices register, time passes, and requests arrive at the     *)
(* guarded routes with every kind of X-API-Key header.                     *)
(***************************************************************************)
IssuedKeys == {api_keys[i].key : i \in DOMAIN api_keys}

\* A key with the claims of k that the server did not sign.
Forged(k) == [k EXCEPT !.sig = "forged"]

PresentableKeys ==
    {NoKey} \cup IssuedKeys \cup user_tokens \cup {Forged(k) : k \in IssuedKeys}

\* user_routes.login_for_access_token: authenticate_user, then create_user_token.
\* password_ok is what verify_password returns.
Login(username, password_ok) ==
    /\ Cardinality(user_tokens) < MaxUserTokens
    /\ UNCHANGED <<db, now, ticks, used_tokens, sessions>>
    /\ IF (\E i \in DOMAIN users : users[i].username = username) /\ password_ok
       THEN /\ user_tokens' = user_tokens \cup {CreateUserToken(username)}
            /\ last' = [Resp("login_for_access_token", "ok", <<>>) EXCEPT
                          !.key = CreateUserToken(username)]
       ELSE /\ last' = Resp("login_for_access_token", "401", <<>>)
            /\ UNCHANGED user_tokens

NextAuth ==
    \/ \E dt \in ClockSteps : Tick(dt)
    \/ \E d \in DeviceIds : RegisterDevice(d, "CCT-100", "1.0", NoName) /\ x_api_key' = NoKey
    \/ CreateUser(DevA, "cct@example.com", NoName) /\ x_api_key' = NoKey
    \/ \E ok \in BOOLEAN : Login(DevA, ok) /\ x_api_key' = NoKey
    \/ \E k \in PresentableKeys, d \in DeviceIds :
          Guarded("register_probe", k, d, RegisterProbe(1, "P-1", d, NoName))
    \/ \E k \in PresentableKeys, d \in DeviceIds :
          Guarded("update_device_connection", k, d, UpdateDeviceConnection(d, TRUE))
    \/ \E k \in PresentableKeys, d \in DeviceIds :
          Guarded("process_temperature_update", k, d,
                  ProcessTemperatureUpdate(d, <<[probe_id |-> 1, temperature |-> 200]>>, 225))
    \/ \E k \in PresentableKeys, d \in DeviceIds :
          Guarded("update_probe_connection", k, d, UpdateProbeConnection(d, 1, FALSE))
    \/ \E k \in PresentableKeys, d \in DeviceIds :
          Guarded("sync_device_settings", k, d, SyncDeviceSettings(d))
    \/ \E k \in PresentableKeys, d \in DeviceIds :
          Guarded("get_target_temperature", k, d, ReadRoute("get_target_temperature", d))

SpecAuth == Init /\ [][NextAuth]_vars

\* C7: a register_device call with a well-formed device_id leaves exactly one
\* device row with that device_id, brought up to date by the call, and returns
\* an API key that differs from every key issued by an earlier registration of
\* that device_id, however close in time the registrations are.
C7_ReRegistrationIssuesDistinctKey ==
    [][ ( /\ CallStep("register_device")
          /\ ValidDeviceIdFormat(last'.device_id) )
        => LET d == last'.device_id
               rows == {i \in DOMAIN devices' : devices'[i].device_id = d}
           IN  /\ Cardinality(rows) = 1
               /\ Len(devices') = Len(devices) + (IF DevicePk(d) = 0 THEN 1 ELSE 0)
               /\ \A i \in rows : /\ devices'[i].firmware_version = "1.0"
                                  /\ devices'[i].last_connected = now
                                  /\ devices'[i].is_active
               /\ last'.status = "ok"
               /\ \A j \in DOMAIN api_keys :
                     api_keys[j].device_id \in rows => api_keys[j].key # last'.key
      ]_vars

\* The five conditions, each read off the key and the store.
AllChecksHold(k, d) ==
    /\ k.sig = "valid"
    /\ k.exp >= now
    /\ k.sub = d
    /\ k.type = "device"
    /\ \E i \in DOMAIN devices : devices[i].device_id = d

\* C8: verify_device_api_key(key, device_id) is true only if the signature is
\* valid, the key has not expired, its subject is the claimed device_id, its
\* type is 'device' and the device exists; if any of these fails it is false,
\* and a guarded route then answers 401 and changes no state.
C8_VerifyRequiresAllChecks ==
    /\ [](\A k \in PresentableKeys, d \in DeviceIds :
             VerifyDeviceApiKey(k, d) <=> AllChecksHold(k, d))
    /\ [][ ( /\ last'.op \in GuardedOps
             /\ now' = now
             /\ ~VerifyDeviceApiKey(x_api_key', last'.device_id) )
           => ( last'.status = "401" /\ db' = db )
         ]_vars

\* C8's case: update_temperature has just answered 401 to a key the server
\* signed for this very device, which exists and has stored a reading under
\* that key before: the key has expired.
C8_Witness ==
    /\ last.op = "process_temperature_update"
    /\ last.status = "401"
    /\ x_api_key \in IssuedKeys
    /\ x_api_key.sub = last.device_id
    /\ x_api_key.exp < now
    /\ DevicePk(last.device_id) # 0
    /\ \E i \in DOMAIN readings : readings[i].device_id = DevicePk(last.device_id)

\* C9: a device API key is valid only while its api_keys row is active and
\* unexpired: once the row's expires_at (30 days after it was issued) has
\* passed, or its is_active is false, a request presenting that key is
\* rejected by verification.
C9_KeyValidOnlyWhileRowLive ==
    [][ ( /\ last'.op \in GuardedOps
          /\ now' = now
          /\ \E i \in DOMAIN api_keys :
                /\ api_keys[i].key = x_api_key'
                /\ (~api_keys[i].is_active \/ api_keys[i].expires_at < now) )
        => last'.status = "401"
      ]_vars

(***************************************************************************)
(* SpecAssoc: devices register, a user signs up, and association requests  *)
(* arrive with and without tokens.                                         *)
(***************************************************************************)
\* The association tokens register_device has returned for device d.
IssuedTokensFor(d) ==
    {GenerateAssociationToken(d, j) :
        j \in {i \in DOMAIN api_keys : api_keys[i].device_id = DevicePk(d)}}

AssocTokens ==
    {NoToken} \cup {GenerateAssociationToken(d, n) : d \in DeviceIds, n \in 1 .. MaxKeys}

NextAssoc ==
    \/ \E d \in DeviceIds \cup MalformedIds :
          RegisterDevice(d, "CCT-100", "1.0", NoName) /\ x_api_key' = NoKey
    \/ CreateUser(Alice, "alice@example.com", NoName) /\ x_api_key' = NoKey
    \/ \E d \in DeviceIds, u \in UserIds, tok \in AssocTokens :
          AssociateDeviceWithUser(d, u, tok) /\ x_api_key' = NoKey

SpecAssoc == Init /\ [][NextAssoc]_vars

\* C10: associate_device_with_user creates an association only when the
\* supplied token is the one register_device issued for that device, and a
\* token that has been used before creates no further association.
C10_AssociationNeedsUnusedIssuedToken ==
    [][ Len(owners') > Len(owners)
        => ( /\ last'.token \in IssuedTokensFor(last'.device_id)
             /\ last'.token \notin used_tokens )
      ]_vars

(***************************************************************************)
(* temperature_service.calculate_average_temperature                       *)
(***************************************************************************)
\* Probe.device_id == device.id, Probe.is_connected == True
ConnectedProbesOf(dev) ==
    {pp \in DOMAIN probes : probes[pp].device_id = dev /\ probes[pp].is_connected}

\* The probe's is_average == False readings by timestamp descending, .first():
\* the rows the query may return (readings of one timestamp come in no defined
\* order).
LatestReadingCandidates(pp) ==
    LET own == {i \in DOMAIN readings :
                   readings[i].probe_id = pp /\ ~readings[i].is_average}
    IN  {i \in own : \A j \in own : readings[j].timestamp <= readings[i].timestamp}

RECURSIVE SumTemperatures(_, _)
SumTemperatures(S, f) ==
    IF S = {} THEN 0
    ELSE LET pp == CHOOSE x \in S : TRUE
         IN  readings[f[pp]].temperature + SumTemperatures(S \ {pp}, f)

AverageOver_AllProbes(dev) ==
    LET with == {pp \in DOMAIN probes :
                    probes[pp].device_id = dev /\ LatestReadingCandidates(pp) # {}}
    IN  {[sum |-> SumTemperatures(with, f), n |-> Cardinality(with)] :
            f \in {g \in [with -> DOMAIN readings] :
                      \A pp \in with : g[pp] \in LatestReadingCandidates(pp)}}

\* temperatures = [latest reading of each connected probe that has one];
\* sum(temperatures) / len(temperatures), None when the list is empty.
AverageOver(dev) ==
    LET with == {pp \in ConnectedProbesOf(dev) : LatestReadingCandidates(pp) # {}}
    IN  {[sum |-> SumTemperatures(with, f), n |-> Cardinality(with)] :
            f \in {g \in [with -> DOMAIN readings] :
                      \A pp \in with : g[pp] \in LatestReadingCandidates(pp)}}

CalculateAverageTemperature(d) ==
    /\ UNCHANGED <<db, now, ticks, user_tokens, used_tokens, sessions>>
    /\ LET dev == DevicePk(d)
       IN  IF dev = 0
           THEN last' = Resp("calculate_average_temperature", "ok", d)
           ELSE \E a \in AverageOver(dev) :
                   last' = [Resp("calculate_average_temperature", "ok", d) EXCEPT
                              !.average = a, !.pk = dev]

(***************************************************************************)
(* SpecAverage: probes register, report, connect and disconnect, time      *)
(* passes, and the average is asked for.                                   *)
(***************************************************************************)
ProbeTemps == {70, 80}

NextAverage ==
    \/ \E dt \in ClockSteps : Tick(dt)
    \/ \E d \in DeviceIds : RegisterDevice(d, "CCT-100", "1.0", NoName) /\ x_api_key' = NoKey
    \/ \E p \in {1, 2}, d \in DeviceIds :
          RegisterProbe(p, "P-1", d, NoName) /\ x_api_key' = NoKey
    \/ \E p \in {1, 2}, c \in BOOLEAN :
          UpdateProbeConnection(DevA, p, c) /\ x_api_key' = NoKey
    \/ \E p \in {1, 2}, t \in ProbeTemps, avg \in {None, 80} :
          ProcessTemperatureUpdate(DevA, <<[probe_id |-> p, temperature |-> t]>>, avg)
             /\ x_api_key' = NoKey
    \/ \E d \in DeviceIds : CalculateAverageTemperature(d) /\ x_api_key' = NoKey

SpecAverage == Init /\ [][NextAverage]_vars

\* Reading i is a latest is_average = false reading of probe pp.
IsLatestProbeReading(i, pp) ==
    /\ readings[i].probe_id = pp
    /\ ~readings[i].is_average
    /\ ~\E j \in DOMAIN readings :
          /\ readings[j].probe_id = pp
          /\ ~readings[j].is_average
          /\ readings[j].timestamp > readings[i].timestamp

\* C11: calculate_average_temperature(device) returns the arithmetic mean of
\* the latest non-average reading of each probe of the device that is connected
\* and has such a reading; disconnected probes and is_average readings never
\* contribute; it returns null when the device is unknown, has no connected
\* probe, or none of its connected probes has a reading.
C11_AverageOfConnectedProbes ==
    [][ CallStep("calculate_average_temperature")
        => LET dev == DevicePk(last'.device_id)
               a == last'.average
               contributing ==
                   {pp \in DOMAIN probes :
                       /\ probes[pp].device_id = dev
                       /\ probes[pp].is_connected
                       /\ \E i \in DOMAIN readings : IsLatestProbeReading(i, pp)}
           IN  IF dev = 0 \/ contributing = {}
               THEN a = NoAverage
               ELSE /\ a.n = Cardinality(contributing)
                    /\ \E f \in [contributing -> DOMAIN readings] :
                          /\ \A pp \in contributing : IsLatestProbeReading(f[pp], pp)
                          /\ a.sum = SumTemperatures(contributing, f)
      ]_vars

\* C11's case: P1 connected with last reading 70, P2 of the same device
\* disconnected with last reading 80, and the call has returned 70.
C11_Witness ==
    /\ last.op = "calculate_average_temperature"
    /\ last.average = [sum |-> 70, n |-> 1]
    /\ \E p1, p2 \in DOMAIN probes :
          /\ p1 # p2
          /\ probes[p1].device_id = last.pk /\ probes[p1].is_connected
          /\ probes[p2].device_id = last.pk /\ ~probes[p2].is_connected
          /\ \E i \in DOMAIN readings :
                IsLatestProbeReading(i, p1) /\ readings[i].temperature = 70
          /\ \E i \in DOMAIN readings :
                IsLatestProbeReading(i, p2) /\ readings[i].temperature = 80

(***************************************************************************)
(* temperature_service.get_temperature_history                             *)
(***************************************************************************)
\* The is_average parameter as the set of flags it admits: None admits both.
AnyAverage == BOOLEAN

\* query.order_by(timestamp.desc()).limit(limit).all() over the rows S: the
\* lists the query may return (rows of one timestamp come in no defined order).
NewestFirst(S, limit) ==
    LET k == IF Cardinality(S) <= limit THEN Cardinality(S) ELSE limit
    IN  {q \in [1 .. k -> S] :
            /\ \A i, j \in 1 .. k : i < j =>
                  /\ q[i] # q[j]
                  /\ readings[q[i]].timestamp >= readings[q[j]].timestamp
            /\ \A x \in S \ {q[i] : i \in 1 .. k} :
                  \A i \in 1 .. k : readings[q[i]].timestamp >= readings[x].timestamp}

GetTemperatureHistory(d, p, limit, is_average) ==
    /\ UNCHANGED <<db, now, ticks, user_tokens, used_tokens, sessions>>
    /\ LET dev == DevicePk(d)
           pp == IF p # NoProbe THEN ProbePk(p) ELSE 0
           \* a probe_id that matches no probe adds no filter
           selected == {i \in DOMAIN readings :
                           /\ readings[i].device_id = dev
                           /\ pp # 0 => readings[i].probe_id = pp
                           /\ readings[i].is_average \in is_average}
       IN  IF dev = 0
           THEN last' = [Resp("get_temperature_history", "ok", d) EXCEPT !.probe_id = p]
           ELSE \E q \in NewestFirst(selected, limit) :
                   last' = [Resp("get_temperature_history", "ok", d) EXCEPT
                              !.probe_id = p, !.pk = dev, !.rows = q]

(***************************************************************************)
(* SpecHistory: a device and a probe report, time passes, and the history  *)
(* is queried for known and unknown devices and probes.                    *)
(***************************************************************************)
NextHistory ==
    \/ \E dt \in ClockSteps : Tick(dt)
    \/ RegisterDevice(DevA, "CCT-100", "1.0", NoName) /\ x_api_key' = NoKey
    \/ RegisterProbe(1, "P-1", DevA, NoName) /\ x_api_key' = NoKey
    \/ \E t \in ProbeTemps, avg \in {None, 80} :
          ProcessTemperatureUpdate(DevA, <<[probe_id |-> 1, temperature |-> t]>>, avg)
             /\ x_api_key' = NoKey
    \/ \E d \in DeviceIds, p \in {NoProbe, 1, 2}, limit \in {1, HISTORY_LIMIT},
          is_average \in {AnyAverage, {TRUE}, {FALSE}} :
          GetTemperatureHistory(d, p, limit, is_average) /\ x_api_key' = NoKey

SpecHistory == Init /\ [][NextHistory]_vars

\* C12: get_temperature_history returns an empty list, and raises no error,
\* whenever the device_id matches no device and whenever a probe_id is given
\* that matches no probe, for every content of the store.
C12_UnknownDeviceOrProbeGivesEmpty ==
    [][ ( /\ CallStep("get_temperature_history")
          /\ \/ DevicePk(last'.device_id) = 0
             \/ last'.probe_id # NoProbe /\ ProbePk(last'.probe_id) = 0 )
        => ( last'.status = "ok" /\ last'.rows = <<>> )
      ]_vars

(***************************************************************************)
(* notification_service: the channels, send_notification and the read flag *)
(***************************************************************************)
\* channels.items(): the order in which send_notification goes through them.
Channels == <<"email", "sms", "push">>

\* channels[name] is not None: the user's setting has the channel switched on.
ChannelAttempted(name, setting) ==
    CASE name = "email" -> setting.email_enabled
      [] name = "sms" -> setting.sms_enabled
      [] name = "push" -> setting.push_enabled

ChannelSucceeds_Always(name, user) == TRUE

\* EmailNotificationChannel / SMSNotificationChannel / PushNotificationChannel
\* .send_notification
ChannelSucceeds(name, user) ==
    CASE name = "email" -> EMAIL_ENABLED /\ user.email # NoName
      [] name = "sms" -> SMS_ENABLED /\ user.phone_number # NoName
      [] name = "push" -> PUSH_ENABLED

\* create_notification
NewNotification(u, title, notification_type, channel, dev, pp) ==
    [user_id |-> u, title |-> title, notification_type |-> notification_type,
     channel |-> channel, device_id |-> dev, probe_id |-> pp, is_read |-> FALSE,
     created_at |-> now]

\* for channel_name, channel in channels.items(): the rows added, from channel i on.
RECURSIVE ChannelRows(_, _, _, _, _, _, _)
ChannelRows(i, setting, u, title, notification_type, dev, pp) ==
    IF i > Len(Channels) THEN <<>>
    ELSE (IF ChannelAttempted(Channels[i], setting) /\ ChannelSucceeds(Channels[i], users[u])
          THEN <<NewNotification(u, title, notification_type, Channels[i], dev, pp)>>
          ELSE <<>>)
         \o ChannelRows(i + 1, setting, u, title, notification_type, dev, pp)

\* results: the pairs <<channel, success>> of the channels attempted.
ChannelResults(setting, u) ==
    {<<Channels[i], ChannelSucceeds(Channels[i], users[u])>> :
        i \in {j \in DOMAIN Channels : ChannelAttempted(Channels[j], setting)}}

SendNotification(u, title, notification_type, dev, pp) ==
    /\ Len(notifications) < MaxNotifications
    /\ UNCHANGED <<now, ticks, devices, api_keys, probes, targets, readings, users,
                   triggers, owners, user_tokens, used_tokens, sessions>>
    /\ IF ~UserExists(u)
       THEN /\ last' = [Resp("send_notification", "value_error", <<>>) EXCEPT !.user = u]
            /\ UNCHANGED <<settings, notifications>>
       ELSE LET sid == SettingsPk(u)
                rows == IF sid # 0 THEN settings ELSE Append(settings, DefaultSetting(u))
                setting == IF sid # 0 THEN settings[sid] ELSE DefaultSetting(u)
            IN  /\ settings' = rows
                /\ notifications' = notifications \o
                      ChannelRows(1, setting, u, title, notification_type, dev, pp)
                /\ last' = [Resp("send_notification", "ok", <<>>) EXCEPT
                              !.user = u, !.results = ChannelResults(setting, u)]

MarkNotificationAsRead_AnyUser(n, u) ==
    /\ UNCHANGED <<now, ticks, devices, api_keys, probes, targets, readings, users,
                   settings, triggers, owners, user_tokens, used_tokens, sessions>>
    /\ IF n \in DOMAIN notifications
       THEN /\ notifications' = [notifications EXCEPT ![n].is_read = TRUE]
            /\ last' = [Resp("mark_notification_as_read", "ok", <<>>) EXCEPT
                          !.user = u, !.pk = n]
       ELSE /\ last' = [Resp("mark_notification_as_read", "404", <<>>) EXCEPT
                          !.user = u, !.pk = n]
            /\ UNCHANGED notifications

\* mark_notification_as_read; the route answers 404 on None.
MarkNotificationAsRead(n, u) ==
    /\ UNCHANGED <<now, ticks, devices, api_keys, probes, targets, readings, users,
                   settings, triggers, owners, user_tokens, used_tokens, sessions>>
    /\ IF n \in DOMAIN notifications /\ notifications[n].user_id = u
       THEN /\ notifications' = [notifications EXCEPT ![n].is_read = TRUE]
            /\ last' = [Resp("mark_notification_as_read", "ok", <<>>) EXCEPT
                          !.user = u, !.pk = n]
       ELSE /\ last' = [Resp("mark_notification_as_read", "404", <<>>) EXCEPT
                          !.user = u, !.pk = n]
            /\ UNCHANGED notifications

\* mark_all_notifications_as_read
MarkAllNotificationsAsRead(u) ==
    /\ UNCHANGED <<now, ticks, devices, api_keys, probes, targets, readings, users,
                   settings, triggers, owners, user_tokens, used_tokens, sessions>>
    /\ notifications' = [n \in DOMAIN notifications |->
                           IF notifications[n].user_id = u /\ ~notifications[n].is_read
                           THEN [notifications[n] EXCEPT !.is_read = TRUE]
                           ELSE notifications[n]]
    /\ last' = [Resp("mark_all_notifications_as_read", "ok", <<>>) EXCEPT
                  !.user = u,
                  !.pk = Cardinality({n \in DOMAIN notifications :
                            notifications[n].user_id = u /\ ~notifications[n].is_read})]

(***************************************************************************)
(* SpecNotify: two users, their channel switches, notifications sent to    *)
(* them and marked as read.                                                *)
(***************************************************************************)
ChannelUpdates ==
    {[NoSettingsUpdate EXCEPT !.email_enabled = <<FALSE>>],
     [NoSettingsUpdate EXCEPT !.push_enabled = <<FALSE>>],
     [NoSettingsUpdate EXCEPT !.sms_enabled = <<TRUE>>]}

NextNotify ==
    \/ CreateUser(Alice, "alice@example.com", NoName) /\ x_api_key' = NoKey
    \/ CreateUser(Bob, "bob@example.com", "555-0100") /\ x_api_key' = NoKey
    \/ \E u \in 1 .. MaxUsers, upd \in ChannelUpdates :
          UpdateNotificationSettings(u, upd) /\ x_api_key' = NoKey
    \/ \E u \in 1 .. MaxUsers + 1 :
          SendNotification(u, <<"Test">>, "test", 0, 0) /\ x_api_key' = NoKey
    \/ \E n \in 1 .. MaxNotifications + 1, u \in 1 .. MaxUsers :
          MarkNotificationAsRead(n, u) /\ x_api_key' = NoKey
    \/ \E u \in 1 .. MaxUsers : MarkAllNotificationsAsRead(u) /\ x_api_key' = NoKey

SpecNotify == Init /\ [][NextNotify]_vars

\* C13: mark_notification_as_read by a user that does not own the notification
\* returns not-found and leaves its is_read flag unchanged; only a call by the
\* owning user sets is_read to true, and no operation sets it back to false.
C13_OnlyOwnerMarksRead ==
    [][ /\ ( /\ CallStep("mark_notification_as_read")
             /\ last'.pk \in DOMAIN notifications
             /\ notifications[last'.pk].user_id # last'.user )
           => ( /\ last'.status = "404"
                /\ notifications'[last'.pk].is_read = notifications[last'.pk].is_read )
        /\ \A n \in DOMAIN notifications :
              /\ n \in DOMAIN notifications'
              /\ notifications[n].is_read => notifications'[n].is_read
              /\ (~notifications[n].is_read /\ notifications'[n].is_read)
                    => ( /\ last'.op \in {"mark_notification_as_read",
                                          "mark_all_notifications_as_read"}
                         /\ last'.user = notifications[n].user_id )
      ]_vars

\* C13's case: a user other than the owner has just asked to mark an unread
\* notification as read and got not-found, while another notification has
\* been marked as read by its owner.
C13_Witness ==
    /\ last.op = "mark_notification_as_read"
    /\ last.status = "404"
    /\ last.pk \in DOMAIN notifications
    /\ UserExists(last.user)
    /\ notifications[last.pk].user_id # last.user
    /\ ~notifications[last.pk].is_read
    /\ \E n \in DOMAIN notifications : notifications[n].is_read

\* What each channel needs in order to deliver.
Delivers(name, user) ==
    \/ name = "email" /\ EMAIL_ENABLED /\ user.email # NoName
    \/ name = "sms" /\ SMS_ENABLED /\ user.phone_number # NoName
    \/ name = "push" /\ PUSH_ENABLED

\* C14: send_notification attempts exactly the channels enabled in the user's
\* NotificationSetting, persists one Notification row tagged with the channel
\* for each attempted channel that reports success and none for a channel that
\* reports failure, and returns the map from each attempted channel to its
\* outcome; a failing channel does not stop the remaining ones.
C14_OneRowPerSuccessfulChannel ==
    [][ ( CallStep("send_notification") /\ last'.status = "ok" )
        => \E sid \in DOMAIN settings' :
             LET u == last'.user
                 setting == settings'[sid]
                 enabled == {c \in {"email", "sms", "push"} :
                                \/ c = "email" /\ setting.email_enabled
                                \/ c = "sms" /\ setting.sms_enabled
                                \/ c = "push" /\ setting.push_enabled}
                 added == (DOMAIN notifications') \ (DOMAIN notifications)
             IN  /\ setting.user_id = u
                 /\ {r[1] : r \in last'.results} = enabled
                 /\ \A r \in last'.results : r[2] = Delivers(r[1], users[u])
                 /\ \A c \in {"email", "sms", "push"} :
                       Cardinality({n \in added : notifications'[n].channel = c})
                          = IF c \in enabled /\ Delivers(c, users[u]) THEN 1 ELSE 0
                 /\ \A n \in added : /\ notifications'[n].user_id = u
                                     /\ notifications'[n].title = <<"Test">>
                                     /\ notifications'[n].notification_type = "test"
                 /\ \A n \in DOMAIN notifications : notifications'[n] = notifications[n]
      ]_vars

\* C14's case: email was attempted and failed, push was attempted after it and
\* succeeded, and the push row is there.
C14_Witness ==
    /\ last.op = "send_notification"
    /\ <<"email", FALSE>> \in last.results
    /\ <<"push", TRUE>> \in last.results
    /\ \E n \in DOMAIN notifications :
          notifications[n].user_id = last.user /\ notifications[n].channel = "push"
    /\ ~\E n \in DOMAIN notifications : notifications[n].channel = "email"

(***************************************************************************)
(* notification_service.notify_connection_lost and check_connection_status *)
(***************************************************************************)
RECURSIVE ConnectionLostRows_AnyOwner(_, _, _, _)
ConnectionLostRows_AnyOwner(i, dev, pp, title) ==
    IF i > Len(owners) THEN <<>>
    ELSE (IF /\ owners[i].device_id = dev
             /\ SettingsPk(owners[i].user_id) # 0
          THEN ChannelRows(1, settings[SettingsPk(owners[i].user_id)], owners[i].user_id,
                           title, "connection_lost", dev, pp)
          ELSE <<>>)
         \o ConnectionLostRows_AnyOwner(i + 1, dev, pp, title)

\* notify_connection_lost: for owner in device.owners, from association i on;
\* an owner without settings or with connection_alerts off is skipped.
RECURSIVE ConnectionLostRows(_, _, _, _)
ConnectionLostRows(i, dev, pp, title) ==
    IF i > Len(owners) THEN <<>>
    ELSE (IF /\ owners[i].device_id = dev
             /\ SettingsPk(owners[i].user_id) # 0
             /\ settings[SettingsPk(owners[i].user_id)].connection_alerts
          THEN ChannelRows(1, settings[SettingsPk(owners[i].user_id)], owners[i].user_id,
                           title, "connection_lost", dev, pp)
          ELSE <<>>)
         \o ConnectionLostRows(i + 1, dev, pp, title)

TimedOut_Inclusive(last_connected) ==
    now - last_connected >= CONNECTION_TIMEOUT_SECONDS

\* (now - last_connected).total_seconds() > settings.CONNECTION_TIMEOUT_SECONDS
TimedOut(last_connected) ==
    now - last_connected > CONNECTION_TIMEOUT_SECONDS

RECURSIVE DeviceSweepRows_AllDevices(_)
DeviceSweepRows_AllDevices(i) ==
    IF i > Len(devices) THEN <<>>
    ELSE (IF TimedOut(devices[i].last_connected)
          THEN ConnectionLostRows(1, i, 0, <<"Device Connection Lost">>)
          ELSE <<>>)
         \o DeviceSweepRows_AllDevices(i + 1)

\* for device in devices: the notifications of the devices from pk i on
RECURSIVE DeviceSweepRows(_)
DeviceSweepRows(i) ==
    IF i > Len(devices) THEN <<>>
    ELSE (IF devices[i].is_active /\ TimedOut(devices[i].last_connected)
          THEN ConnectionLostRows(1, i, 0, <<"Device Connection Lost">>)
          ELSE <<>>)
         \o DeviceSweepRows(i + 1)

\* for probe in probes: the notifications of the probes from pk i on
RECURSIVE ProbeSweepRows(_)
ProbeSweepRows(i) ==
    IF i > Len(probes) THEN <<>>
    ELSE (IF probes[i].is_connected /\ TimedOut(probes[i].last_connected)
          THEN ConnectionLostRows(1, probes[i].device_id, i, <<"Probe Connection Lost">>)
          ELSE <<>>)
         \o ProbeSweepRows(i + 1)

\* One complete sweep.
CheckConnectionStatus ==
    /\ UNCHANGED <<now, ticks, api_keys, targets, readings, users, settings, triggers,
                   owners, user_tokens, used_tokens, sessions>>
    /\ devices' = [i \in DOMAIN devices |->
                     IF devices[i].is_active /\ TimedOut(devices[i].last_connected)
                     THEN [devices[i] EXCEPT !.is_active = FALSE]
                     ELSE devices[i]]
    /\ probes' = [i \in DOMAIN probes |->
                    IF probes[i].is_connected /\ TimedOut(probes[i].last_connected)
                    THEN [probes[i] EXCEPT !.is_connected = FALSE]
                    ELSE probes[i]]
    /\ notifications' = notifications \o DeviceSweepRows(1) \o ProbeSweepRows(1)
    /\ Len(notifications') <= MaxNotifications
    /\ last' = Resp("check_connection_status", "ok", <<>>)

(***************************************************************************)
(* SpecSweep: devices and probes connect, time passes up to and past the   *)
(* timeout, and the sweep runs.                                            *)
(***************************************************************************)
SweepSteps == {CONNECTION_TIMEOUT_SECONDS, CONNECTION_TIMEOUT_SECONDS + 1}

NextSweep ==
    \/ \E dt \in SweepSteps : Tick(dt)
    \/ \E d \in DeviceIds : RegisterDevice(d, "CCT-100", "1.0", NoName) /\ x_api_key' = NoKey
    \/ \E p \in {1, 2}, d \in DeviceIds :
          RegisterProbe(p, "P-1", d, NoName) /\ x_api_key' = NoKey
    \/ \E d \in DeviceIds : UpdateDeviceConnection(d, TRUE) /\ x_api_key' = NoKey
    \/ CreateUser(Alice, "alice@example.com", NoName) /\ x_api_key' = NoKey
    \/ AssociateDeviceWithUser(DevA, 1, NoToken) /\ x_api_key' = NoKey
    \/ UpdateNotificationSettings(1, [NoSettingsUpdate EXCEPT !.connection_alerts = <<FALSE>>])
          /\ x_api_key' = NoKey
    \/ CheckConnectionStatus /\ x_api_key' = NoKey

SpecSweep == Init /\ [][NextSweep]_vars

\* C15: a complete check_connection_status sweep marks inactive exactly the
\* devices that were active with a last_connected older than
\* CONNECTION_TIMEOUT_SECONDS (60), and disconnected exactly the probes that
\* were connected with a last_connected older than the timeout; every device
\* and probe within the timeout keeps its flag.
C15_SweepMarksExactlyTimedOut ==
    [][ CallStep("check_connection_status")
        => /\ DOMAIN devices' = DOMAIN devices
           /\ DOMAIN probes' = DOMAIN probes
           /\ \A i \in DOMAIN devices :
                 IF devices[i].is_active
                    /\ now - devices[i].last_connected > CONNECTION_TIMEOUT_SECONDS
                 THEN devices'[i] = [devices[i] EXCEPT !.is_active = FALSE]
                 ELSE devices'[i] = devices[i]
           /\ \A i \in DOMAIN probes :
                 IF probes[i].is_connected
                    /\ now - probes[i].last_connected > CONNECTION_TIMEOUT_SECONDS
                 THEN probes'[i] = [probes[i] EXCEPT !.is_connected = FALSE]
                 ELSE probes'[i] = probes[i]
      ]_vars

\* C15's case: the sweep has run 61 seconds after one device and one probe were
\* last heard of and marked them, while a device and a probe heard of since
\* keep their flags.
C15_Witness ==
    /\ last.op = "check_connection_status"
    /\ \E i, j \in DOMAIN devices :
          /\ ~devices[i].is_active /\ now - devices[i].last_connected > CONNECTION_TIMEOUT_SECONDS
          /\ devices[j].is_active /\ now - devices[j].last_connected <= CONNECTION_TIMEOUT_SECONDS
    /\ \E i, j \in DOMAIN probes :
          /\ ~probes[i].is_connected /\ now - probes[i].last_connected > CONNECTION_TIMEOUT_SECONDS
          /\ probes[j].is_connected /\ now - probes[j].last_connected <= CONNECTION_TIMEOUT_SECONDS

(***************************************************************************)
(* user_service.associate_device_with_user                                 *)
(***************************************************************************)
\* db.query(user_device_association).filter(user_id, device_id).first()
AssociationExists(u, dev) ==
    \E i \in DOMAIN owners : owners[i].user_id = u /\ owners[i].device_id = dev

UserAssociateDevice(u, d) ==
    /\ Len(owners) < MaxAssoc
    /\ UNCHANGED <<now, ticks, devices, api_keys, probes, targets, readings, users,
                   settings, triggers, notifications, user_tokens, used_tokens, sessions>>
    /\ LET dev == DevicePk(d)
       IN  IF ~UserExists(u) \/ dev = 0
           THEN /\ last' = [Resp("associate_device", "value_error", d) EXCEPT !.user = u]
                /\ UNCHANGED owners
           ELSE /\ owners' = IF AssociationExists(u, dev) THEN owners
                             ELSE Append(owners, [user_id |-> u, device_id |-> dev])
                /\ last' = [Resp("associate_device", "ok", d) EXCEPT
                              !.user = u, !.pk = dev]

(***************************************************************************)
(* SpecOwners: devices and users appear and are associated through either  *)
(* service, repeatedly.                                                    *)
(***************************************************************************)
NextOwners ==
    \/ \E d \in DeviceIds : RegisterDevice(d, "CCT-100", "1.0", NoName) /\ x_api_key' = NoKey
    \/ CreateUser(Alice, "alice@example.com", NoName) /\ x_api_key' = NoKey
    \/ CreateUser(Bob, "bob@example.com", NoName) /\ x_api_key' = NoKey
    \/ \E d \in DeviceIds, u \in 1 .. MaxUsers :
          AssociateDeviceWithUser(d, u, NoToken) /\ x_api_key' = NoKey
    \/ \E d \in DeviceIds, u \in 1 .. MaxUsers :
          UserAssociateDevice(u, d) /\ x_api_key' = NoKey

SpecOwners == Init /\ [][NextOwners]_vars

\* C16: association is idempotent in both services: a call for a pair that is
\* already associated succeeds and leaves the relation unchanged, so the
\* relation holds each (user, device) pair at most once; a call naming a device
\* or a user that does not exist fails and leaves the relation unchanged.
C16_AssociationIdempotent ==
    /\ [](\A i, j \in DOMAIN owners : owners[i] = owners[j] => i = j)
    /\ [][ ( /\ last'.op \in {"associate_device_with_user", "associate_device"}
             /\ now' = now )
           => LET u == last'.user
                  d == last'.device_id
                  known == /\ u \in DOMAIN users
                           /\ \E i \in DOMAIN devices : devices[i].device_id = d
                  succeeded == last'.status \in {"true", "ok"}
              IN  /\ known <=> succeeded
                  /\ ~known => owners' = owners
                  /\ ( known /\ \E i \in DOMAIN owners :
                                   /\ owners[i].user_id = u
                                   /\ devices[owners[i].device_id].device_id = d )
                        => owners' = owners
                  /\ known => \E i \in DOMAIN owners' :
                                  /\ owners'[i].user_id = u
                                  /\ devices[owners'[i].device_id].device_id = d
         ]_vars

\* C16's case: a pair associated through one service has been associated again
\* through the other, which succeeded, and the relation holds it once.
C16_Witness ==
    /\ last.op = "associate_device"
    /\ last.status = "ok"
    /\ used_tokens # {}
    /\ Cardinality({i \in DOMAIN owners :
                       owners[i] = [user_id |-> last.user, device_id |-> last.pk]}) = 1
    /\ Len(owners) = 1

(***************************************************************************)
(* Concurrent requests that create a user's NotificationSetting.  Each     *)
(* request runs in its own database session; a step is what the handler    *)
(* does between two round trips to the database.                           *)
(***************************************************************************)
\* create_user up to and including the commit of the users row
CreateUserCommitUser(p, username, email, phone) ==
    /\ sessions[p].pc = "idle"
    /\ Len(users) < MaxUsers
    /\ UNCHANGED <<now, ticks, devices, api_keys, probes, targets, readings, settings,
                   triggers, notifications, owners, user_tokens, used_tokens>>
    /\ IF \E i \in DOMAIN users : users[i].username = username \/ users[i].email = email
       THEN /\ last' = Resp("create_user", "value_error", <<>>)
            /\ UNCHANGED <<users, sessions>>
       ELSE /\ users' = Append(users, [username |-> username, email |-> email,
                                        phone_number |-> phone, is_active |-> TRUE])
            /\ sessions' = [sessions EXCEPT ![p] =
                   [IdleSession EXCEPT !.pc = "user_committed", !.op = "create_user",
                                       !.by = Len(users) + 1]]
            /\ UNCHANGED last

\* create_user from db.add(db_notification_settings) to its return
CreateUserCommitSettings(p) ==
    /\ sessions[p].pc = "user_committed"
    /\ UNCHANGED <<now, ticks, devices, api_keys, probes, targets, readings, users,
                   triggers, notifications, owners, user_tokens, used_tokens>>
    /\ LET u == sessions[p].by
       IN  /\ settings' = Append(settings,
                  [DefaultSetting(u) EXCEPT
                     !.sms_enabled = (users[u].phone_number # NoName)])
           /\ last' = [Resp("create_user", "ok", <<>>) EXCEPT !.user = u]
    /\ sessions' = [sessions EXCEPT ![p] = IdleSession]

LazySettingsOps == {"send_notification", "update_notification_settings"}

\* send_notification / update_notification_settings up to and including the
\* query for the user's NotificationSetting row
SettingsRead(p, op, u, max) ==
    /\ sessions[p].pc = "idle"
    /\ op \in LazySettingsOps
    /\ op = "update_notification_settings" => UserExists(u)
    /\ op = "send_notification" => Len(notifications) + 1 < MaxNotifications
    /\ UNCHANGED <<now, ticks, db, user_tokens, used_tokens>>
    /\ IF ~UserExists(u)
       THEN /\ last' = [Resp(op, "value_error", <<>>) EXCEPT !.user = u]
            /\ UNCHANGED sessions
       ELSE /\ sessions' = [sessions EXCEPT ![p] =
                   [IdleSession EXCEPT !.pc = "settings_read", !.op = op, !.by = u,
                                       !.db_settings = SettingsPk(u),
                                       !.max_temp_threshold = max]]
            /\ UNCHANGED last

\* if not settings: db.add(NotificationSetting(user_id=user_id)); db.commit(),
\* and what follows it in the handler
SettingsWrite(p) ==
    /\ sessions[p].pc = "settings_read"
    /\ UNCHANGED <<now, ticks, devices, api_keys, probes, targets, readings, users,
                   triggers, owners, user_tokens, used_tokens>>
    /\ LET r == sessions[p]
           u == r.by
           sid == IF r.db_settings # 0 THEN r.db_settings ELSE Len(settings) + 1
           rows == IF r.db_settings # 0 THEN settings
                   ELSE Append(settings, DefaultSetting(u))
       IN  IF r.op = "update_notification_settings"
           THEN /\ settings' = [rows EXCEPT ![sid].max_temp_threshold =
                                   IF r.max_temp_threshold # None
                                   THEN r.max_temp_threshold ELSE @]
                /\ UNCHANGED notifications
                /\ last' = [Resp(r.op, "ok", <<>>) EXCEPT !.user = u, !.pk = sid]
           ELSE /\ settings' = rows
                /\ notifications' = notifications \o
                      ChannelRows(1, rows[sid], u, <<"Test">>, "test", 0, 0)
                /\ last' = [Resp(r.op, "ok", <<>>) EXCEPT
                              !.user = u, !.results = ChannelResults(rows[sid], u)]
    /\ sessions' = [sessions EXCEPT ![p] = IdleSession]

NextSettings ==
    \/ \E p \in Procs :
          CreateUserCommitUser(p, Alice, "alice@example.com", NoName) /\ x_api_key' = NoKey
    \/ \E p \in Procs :
          CreateUserCommitUser(p, Bob, "bob@example.com", "555-0100") /\ x_api_key' = NoKey
    \/ \E p \in Procs : CreateUserCommitSettings(p) /\ x_api_key' = NoKey
    \/ \E p \in Procs, op \in LazySettingsOps, u \in 1 .. MaxUsers,
          max \in {None} \cup Thresholds :
          SettingsRead(p, op, u, max) /\ x_api_key' = NoKey
    \/ \E p \in Procs : SettingsWrite(p) /\ x_api_key' = NoKey

SpecSettings == Init /\ [][NextSettings]_vars

SettingsRowsOf(u) == {i \in DOMAIN settings : settings[i].user_id = u}

\* C17: every user has at most one NotificationSetting row in every reachable
\* state, concurrent calls included, and exactly one once create_user,
\* send_notification or update_notification_settings has returned for the user.
C17_OneSettingsRowPerUser ==
    /\ \A u \in DOMAIN users : Cardinality(SettingsRowsOf(u)) <= 1
    /\ ( /\ last.op \in {"create_user"} \cup LazySettingsOps
         /\ last.status = "ok" )
       => Cardinality(SettingsRowsOf(last.user)) = 1

(***************************************************************************)
(* SpecBatch: a device with probes and targets receives temperature        *)
(* updates that carry several readings.                                    *)
(***************************************************************************)
BatchEntries == [probe_id : {NoProbe, 1, 2}, temperature : {70, None}]
UpdateBatches ==
    {<<>>} \cup {<<r>> : r \in BatchEntries}
           \cup {<<r1, r2>> : r1 \in BatchEntries, r2 \in BatchEntries}

NextBatch ==
    \/ RegisterDevice(DevA, "CCT-100", "1.0", NoName) /\ x_api_key' = NoKey
    \/ \E p \in {1, 2} : RegisterProbe(p, "P-1", DevA, NoName) /\ x_api_key' = NoKey
    \/ \E t \in Temps : SetTargetTemperature(DevA, t, 0) /\ x_api_key' = NoKey
    \/ \E rds \in UpdateBatches, avg \in {None, 75} :
          ProcessTemperatureUpdate(DevA, rds, avg) /\ x_api_key' = NoKey

SpecBatch == Init /\ [][NextBatch]_vars

\* The entries of a request that carry a temperature, in the order supplied.
WithTemperature(rds) == SelectSeq(rds, LAMBDA r : r.temperature # None)

\* C18: a process_temperature_update call that answers has appended one
\* is_average = false reading per entry that carries a temperature, in the
\* order supplied, then the average, when supplied, as an is_average = true
\* reading with no probe; its response carries the temperature of the device's
\* active target at the end of the call, None when no target is active.
C18_ReadingsInOrderThenAverage ==
    [][ ( /\ last'.op = "process_temperature_update"
          /\ last'.status = "ok"
          /\ now' = now )
        => LET kept == WithTemperature(last'.request.readings)
               avg == last'.request.average_temperature
               k == Len(readings)
               n == Len(kept)
               dev == CHOOSE i \in DOMAIN devices : devices[i].device_id = last'.device_id
               active == {i \in DOMAIN targets' :
                            targets'[i].device_id = dev /\ targets'[i].is_active}
           IN  /\ Len(readings') = k + n + (IF avg # None THEN 1 ELSE 0)
               /\ \A i \in 1 .. k : readings'[i] = readings[i]
               /\ \A i \in 1 .. n :
                     /\ readings'[k + i].temperature = kept[i].temperature
                     /\ readings'[k + i].is_average = FALSE
                     /\ readings'[k + i].device_id = dev
                     /\ IF kept[i].probe_id = NoProbe
                        THEN readings'[k + i].probe_id = 0
                        ELSE /\ readings'[k + i].probe_id # 0
                             /\ probes[readings'[k + i].probe_id].probe_id = kept[i].probe_id
               /\ avg # None =>
                     /\ readings'[k + n + 1].temperature = avg
                     /\ readings'[k + n + 1].is_average = TRUE
                     /\ readings'[k + n + 1].probe_id = 0
                     /\ readings'[k + n + 1].device_id = dev
               /\ IF active = {} THEN last'.temp = None
                  ELSE \E i \in active : last'.temp = targets'[i].temperature
      ]_vars

\* C18's case: an update whose first entry has no temperature, whose second
\* has one, and which carries an average, was answered with the active target:
\* the entry's reading is the last but one row, the average the last.
C18_Witness ==
    /\ last.op = "process_temperature_update"
    /\ last.status = "ok"
    /\ Len(last.request.readings) = 2
    /\ last.request.readings[1].temperature = None
    /\ last.request.readings[2].temperature # None
    /\ last.request.readings[2].probe_id # NoProbe
    /\ last.request.average_temperature # None
    /\ last.temp # None
    /\ Len(readings) = 2
    /\ ~readings[1].is_average /\ readings[2].is_average

(***************************************************************************)
(* device_service.generate_unique_device_id                                *)
(***************************************************************************)
\* secrets.choice draws from '0123456789ABCDEFGHIJKLMNOPQRSTUVWXYZ'; the draws
\* considered here are those of the characters 0 and 1.
SampleAlphabet == {"0", "1"}

\* ''.join(secrets.choice(...) for _ in range(4))
RandomParts == {a \o b \o c \o e : a \in SampleAlphabet, b \in SampleAlphabet,
                                   c \in SampleAlphabet, e \in SampleAlphabet}

IdIsFree_Always(d) == TRUE

\* not get_device_by_id(db, device_id)
IdIsFree(d) == DevicePk(d) = 0

\* The loop ends with the first sample that is free; the samples before it
\* leave no trace.  With no free id in reach the call does not return.
GenerateUniqueDeviceId ==
    /\ UNCHANGED <<now, ticks, db, user_tokens, used_tokens, sessions>>
    /\ \E random_part1 \in RandomParts, random_part2 \in RandomParts :
          LET device_id == <<"CCT", random_part1, random_part2>>
          IN  /\ IdIsFree(device_id)
              /\ last' = Resp("generate_unique_device_id", "ok", device_id)

(***************************************************************************)
(* SpecGenerate: devices register, some under ids the generator can draw,  *)
(* and ids are generated.                                                  *)
(***************************************************************************)
DevC == <<"CCT", "0000", "0000">>

NextGenerate ==
    \/ \E d \in {DevA, DevB, DevC}, fw \in {"1.0", "1.1"} :
          RegisterDevice(d, "CCT-100", fw, NoName) /\ x_api_key' = NoKey
    \/ GenerateUniqueDeviceId /\ x_api_key' = NoKey

SpecGenerate == Init /\ [][NextGenerate]_vars

\* C19: generate_unique_device_id returns only ids CCT-XXXX-XXXX, two groups
\* of 4 characters, that are the device_id of no device in the store at the
\* time of the call.
C19_GeneratedIdWellFormedAndFree ==
    [][ ( last'.op = "generate_unique_device_id" /\ now' = now )
        => LET device_id == last'.device_id
           IN  /\ Len(device_id) = 3
               /\ device_id[1] = "CCT"
               /\ Len(device_id[2]) = 4 /\ Len(device_id[3]) = 4
               /\ device_id[2] \in RandomParts /\ device_id[3] \in RandomParts
               /\ \A i \in DOMAIN devices : devices[i].device_id # device_id
      ]_vars

\* C19's case: with CCT-0000-0001 and CCT-0000-0000 in the store, an id was
\* generated, from the same first group.
C19_Witness ==
    /\ last.op = "generate_unique_device_id"
    /\ DevicePk(DevB) # 0 /\ DevicePk(DevC) # 0
    /\ last.device_id[2] = "0000"

(***************************************************************************)
(* notification_service.check_temperature_triggers                         *)
(***************************************************************************)
HighAlert_Inclusive(setting, t) ==
    setting.max_temp_threshold # None /\ t >= setting.max_temp_threshold

\* settings.max_temp_threshold is not None and temperature > settings.max_temp_threshold
HighAlert(setting, t) ==
    setting.max_temp_threshold # None /\ t > setting.max_temp_threshold

\* settings.min_temp_threshold is not None and temperature < settings.min_temp_threshold
LowAlert(setting, t) ==
    setting.min_temp_threshold # None /\ t < setting.min_temp_threshold

CustomTriggered_ExactEqual(trigger, dev, pp, t) ==
    /\ trigger.is_active
    /\ ~(trigger.device_id # 0 /\ trigger.device_id # dev)
    /\ ~(trigger.probe_id # 0 /\ (pp = 0 \/ trigger.probe_id # pp))
    /\ \/ trigger.condition_type = "above" /\ t > trigger.threshold_value
       \/ trigger.condition_type = "below" /\ t < trigger.threshold_value
       \/ trigger.condition_type = "equal" /\ t = trigger.threshold_value

\* The custom trigger loop's test of one trigger.
CustomTriggered(trigger, dev, pp, t) ==
    /\ trigger.is_active
    /\ ~(trigger.device_id # 0 /\ trigger.device_id # dev)
    /\ ~(trigger.probe_id # 0 /\ (pp = 0 \/ trigger.probe_id # pp))
    /\ \/ trigger.condition_type = "above" /\ t > trigger.threshold_value
       \/ trigger.condition_type = "below" /\ t < trigger.threshold_value
       \/ /\ trigger.condition_type = "equal"
          /\ Abs(t - trigger.threshold_value) < HalfDegree

\* for trigger in settings.custom_triggers: the rows send_notification adds,
\* from trigger i on.  The trigger's name is left out of the title.
RECURSIVE CustomTriggerRows(_, _, _, _, _, _)
CustomTriggerRows(i, sid, u, dev, pp, t) ==
    IF i > Len(triggers) THEN <<>>
    ELSE (IF triggers[i].notification_setting_id = sid
             /\ CustomTriggered(triggers[i], dev, pp, t)
          THEN ChannelRows(1, settings[sid], u, <<"Custom Temperature Alert">>,
                           "custom_trigger", dev, pp)
          ELSE <<>>)
         \o CustomTriggerRows(i + 1, sid, u, dev, pp, t)

\* The body of the loop over device.owners for one owner.
OwnerAlertRows(u, dev, pp, t) ==
    LET sid == SettingsPk(u)
    IN  IF sid = 0 THEN <<>>
        ELSE (IF HighAlert(settings[sid], t)
              THEN ChannelRows(1, settings[sid], u, <<"High Temperature Alert">>,
                               "temperature_alert", dev, pp)
              ELSE <<>>)
             \o (IF LowAlert(settings[sid], t)
                 THEN ChannelRows(1, settings[sid], u, <<"Low Temperature Alert">>,
                                  "temperature_alert", dev, pp)
                 ELSE <<>>)
             \o CustomTriggerRows(1, sid, u, dev, pp, t)

\* for owner in device.owners, from association row i on
RECURSIVE TemperatureAlertRows(_, _, _, _)
TemperatureAlertRows(i, dev, pp, t) ==
    IF i > Len(owners) THEN <<>>
    ELSE (IF owners[i].device_id = dev
          THEN OwnerAlertRows(owners[i].user_id, dev, pp, t)
          ELSE <<>>)
         \o TemperatureAlertRows(i + 1, dev, pp, t)

\* The call returns nothing; temp keeps the temperature it was given.
CheckTemperatureTriggers(d, t, p) ==
    /\ UNCHANGED <<now, ticks, devices, api_keys, probes, targets, readings, users,
                   settings, triggers, owners, user_tokens, used_tokens, sessions>>
    /\ LET dev == DevicePk(d)
           pp == IF p # NoProbe THEN ProbePk(p) ELSE 0
           rows == IF dev = 0 THEN <<>> ELSE TemperatureAlertRows(1, dev, pp, t)
       IN  /\ Len(notifications) + Len(rows) <= MaxNotifications
           /\ notifications' = notifications \o rows
           /\ last' = [Resp("check_temperature_triggers", "ok", d) EXCEPT
                         !.temp = t, !.pk = dev, !.probe_id = p]

(***************************************************************************)
(* SpecTriggers: users with thresholds and a custom trigger own a device   *)
(* whose temperature is checked.                                           *)
(***************************************************************************)
CheckedTemps == {150, 200, 210}
HighThresholds == {200}
LowThresholds == {150, 225}

NextTriggers ==
    \/ RegisterDevice(DevA, "CCT-100", "1.0", NoName) /\ x_api_key' = NoKey
    \/ CreateUser(Alice, "alice@example.com", NoName) /\ x_api_key' = NoKey
    \/ CreateUser(Bob, "bob@example.com", NoName) /\ x_api_key' = NoKey
    \/ \E u \in 1 .. MaxUsers : AssociateDeviceWithUser(DevA, u, NoToken) /\ x_api_key' = NoKey
    \/ \E u \in 1 .. MaxUsers, max \in HighThresholds :
          UpdateNotificationSettings(u, [NoSettingsUpdate EXCEPT !.max_temp_threshold = max])
             /\ x_api_key' = NoKey
    \/ \E u \in 1 .. MaxUsers, min \in LowThresholds :
          UpdateNotificationSettings(u, [NoSettingsUpdate EXCEPT !.min_temp_threshold = min])
             /\ x_api_key' = NoKey
    \/ \E b \in BOOLEAN :
          UpdateNotificationSettings(1, [NoSettingsUpdate EXCEPT !.push_enabled = <<b>>])
             /\ x_api_key' = NoKey
    \/ CreateCustomTrigger(1, "above", 150, 1, 0, TRUE) /\ x_api_key' = NoKey
    \/ \E d \in DeviceIds, t \in CheckedTemps :
          CheckTemperatureTriggers(d, t, NoProbe) /\ x_api_key' = NoKey

SpecTriggers == Init /\ [][NextTriggers]_vars

\* The number of channels that are switched on in s and deliver to user.
DeliveringChannels(s, user) ==
    Cardinality({i \in DOMAIN Channels :
                    ChannelAttempted(Channels[i], s) /\ Delivers(Channels[i], user)})

\* C20: in check_temperature_triggers, for each owner of the device that has a
\* NotificationSetting, a 'High Temperature Alert' is sent (one row per
\* delivering channel) if and only if max_temp_threshold is set and the
\* temperature is above it, a 'Low Temperature Alert' if and only if
\* min_temp_threshold is set and the temperature is below it, whatever the
\* other check and the custom triggers do; nobody else gets either.
C20_ThresholdAlertsIndependent ==
    [][ ( /\ last'.op = "check_temperature_triggers"
          /\ now' = now
          /\ last'.pk # 0 )
        => LET t == last'.temp
               dev == last'.pk
               added == {i \in DOMAIN notifications' : i > Len(notifications)}
               Sent(u, title) ==
                   Cardinality({i \in added : /\ notifications'[i].user_id = u
                                              /\ notifications'[i].title = title
                                              /\ notifications'[i].device_id = dev})
           IN  \A u \in DOMAIN users :
                 LET rows == {i \in DOMAIN settings : settings[i].user_id = u}
                     owner == \E i \in DOMAIN owners :
                                 owners[i].user_id = u /\ owners[i].device_id = dev
                 IN  IF owner /\ rows # {}
                     THEN \E sid \in rows :
                            LET s == settings[sid]
                                n == DeliveringChannels(s, users[u])
                            IN  /\ Sent(u, <<"High Temperature Alert">>) =
                                     IF s.max_temp_threshold # None
                                        /\ t > s.max_temp_threshold THEN n ELSE 0
                                /\ Sent(u, <<"Low Temperature Alert">>) =
                                     IF s.min_temp_threshold # None
                                        /\ t < s.min_temp_threshold THEN n ELSE 0
                                /\ ( /\ s.min_temp_threshold # None
                                     /\ s.max_temp_threshold # None
                                     /\ s.min_temp_threshold <= t
                                     /\ t <= s.max_temp_threshold )
                                   => \A i \in added :
                                         notifications'[i].user_id = u
                                         => notifications'[i].notification_type
                                               # "temperature_alert"
                     ELSE /\ Sent(u, <<"High Temperature Alert">>) = 0
                          /\ Sent(u, <<"Low Temperature Alert">>) = 0
      ]_vars

\* C20's case: one check, of a temperature above the owner's maximum and below
\* the owner's minimum, has sent that owner both alerts.
C20_Witness ==
    /\ last.op = "check_temperature_triggers"
    /\ Len(notifications) = 2
    /\ notifications[1].title = <<"High Temperature Alert">>
    /\ notifications[2].title = <<"Low Temperature Alert">>
    /\ notifications[1].user_id = notifications[2].user_id
    /\ last.pk # 0 /\ last.temp = 210
    /\ settings[SettingsPk(notifications[1].user_id)].push_enabled

(***************************************************************************)
(* SpecCustom: a user who owns two devices, a user who owns none, custom   *)
(* triggers of every scope and condition, and temperatures checked with    *)
(* and without a probe.                                                    *)
(***************************************************************************)
TriggerThreshold == {150}
\* Below the threshold, on it, within and at half a degree above it.
CustomTemps == {140, 150, 154, 155}

NextCustom ==
    \/ \E d \in DeviceIds : RegisterDevice(d, "CCT-100", "1.0", NoName) /\ x_api_key' = NoKey
    \/ \E p \in {1, 2} : RegisterProbe(p, "P-1", DevA, NoName) /\ x_api_key' = NoKey
    \/ CreateUser(Alice, "alice@example.com", NoName) /\ x_api_key' = NoKey
    \/ CreateUser(Bob, "bob@example.com", NoName) /\ x_api_key' = NoKey
    \/ \E d \in DeviceIds : AssociateDeviceWithUser(d, 1, NoToken) /\ x_api_key' = NoKey
    \/ \E cond \in {"above", "below", "equal"}, v \in TriggerThreshold,
          dev \in 0 .. 2, pp \in 0 .. 2 :
          CreateCustomTrigger(1, cond, v, dev, pp, TRUE) /\ x_api_key' = NoKey
    \/ \E v \in TriggerThreshold :
          CreateCustomTrigger(1, "equal", v, 0, 0, FALSE) /\ x_api_key' = NoKey
    \/ \E v \in TriggerThreshold :
          CreateCustomTrigger(2, "equal", v, 0, 0, TRUE) /\ x_api_key' = NoKey
    \/ \E t \in CustomTemps, p \in {NoProbe, 1, 2} :
          CheckTemperatureTriggers(DevA, t, p) /\ x_api_key' = NoKey

SpecCustom == Init /\ [][NextCustom]_vars

\* C21: in check_temperature_triggers a custom trigger fires (one row per
\* delivering channel of its user) if and only if it is active, belongs to the
\* settings of an owner of the device, has no device scope or that device as
\* its scope, has no probe scope or the reading's probe as its scope, and its
\* condition holds, "equal" meaning less than half a degree apart; a trigger
\* with a probe scope does not fire on a reading without a probe.
C21_CustomTriggerFiresIffInScope ==
    [][ ( /\ last'.op = "check_temperature_triggers"
          /\ now' = now
          /\ last'.pk # 0 )
        => LET t == last'.temp
               dev == last'.pk
               probe == {i \in DOMAIN probes : probes[i].probe_id = last'.probe_id}
               added == {i \in DOMAIN notifications' : i > Len(notifications)}
               Holds(g) ==
                   \/ g.condition_type = "above" /\ t > g.threshold_value
                   \/ g.condition_type = "below" /\ t < g.threshold_value
                   \/ /\ g.condition_type = "equal"
                      /\ t - g.threshold_value < HalfDegree
                      /\ g.threshold_value - t < HalfDegree
               Fires(i, u) ==
                   /\ triggers[i].is_active
                   /\ settings[triggers[i].notification_setting_id].user_id = u
                   /\ \E j \in DOMAIN owners :
                         owners[j].user_id = u /\ owners[j].device_id = dev
                   /\ triggers[i].device_id \in {0, dev}
                   /\ triggers[i].probe_id \in {0} \cup probe
                   /\ Holds(triggers[i])
               CustomRows(u) ==
                   Cardinality({i \in added :
                                   /\ notifications'[i].user_id = u
                                   /\ notifications'[i].notification_type = "custom_trigger"})
               PerTrigger(u) ==
                   Cardinality({sid \in DOMAIN settings : settings[sid].user_id = u})
                      * DeliveringChannels(settings[SettingsPk(u)], users[u])
           IN  /\ \A u \in DOMAIN users :
                     CustomRows(u)
                        = Cardinality({i \in DOMAIN triggers : Fires(i, u)}) * PerTrigger(u)
               /\ last'.probe_id = NoProbe
                     => \A u \in DOMAIN users :
                           CustomRows(u)
                              = Cardinality({i \in DOMAIN triggers :
                                                triggers[i].probe_id = 0 /\ Fires(i, u)})
                                   * PerTrigger(u)
      ]_vars

\* C21's case: an "equal" trigger scoped to the device and to a probe has
\* fired on a reading of that probe less than half a degree off its threshold.
C21_Witness ==
    /\ last.op = "check_temperature_triggers"
    /\ last.probe_id # NoProbe
    /\ last.temp = 154
    /\ \E i \in DOMAIN triggers :
          /\ triggers[i].condition_type = "equal"
          /\ triggers[i].device_id = last.pk
          /\ triggers[i].probe_id # 0
    /\ Len(notifications) = 1
    /\ notifications[1].notification_type = "custom_trigger"
    /\ notifications[1].probe_id # 0

(***************************************************************************)
(* SpecInline: an owner with channel flags on or off and custom triggers   *)
(* of every scope and condition; the device stores one reading at a time.  *)
(***************************************************************************)
\* Below the threshold, on it, and less than half a degree above it.
InlineTemps == {140, 150, 154}

NextInline ==
    \/ RegisterDevice(DevA, "CCT-100", "1.0", NoName) /\ x_api_key' = NoKey
    \/ \E p \in {1, 2} : RegisterProbe(p, "P-1", DevA, NoName) /\ x_api_key' = NoKey
    \/ CreateUser(Alice, "alice@example.com", NoName) /\ x_api_key' = NoKey
    \/ AssociateDeviceWithUser(DevA, 1, NoToken) /\ x_api_key' = NoKey
    \/ UpdateNotificationSettings(1, [NoSettingsUpdate EXCEPT
                                        !.email_enabled = <<FALSE>>,
                                        !.push_enabled = <<FALSE>>])
          /\ x_api_key' = NoKey
    \/ \E cond \in {"above", "below", "equal"}, v \in TriggerThreshold,
          dev \in {0, 1}, pp \in 0 .. 2 :
          CreateCustomTrigger(1, cond, v, dev, pp, TRUE) /\ x_api_key' = NoKey
    \/ \E v \in TriggerThreshold :
          CreateCustomTrigger(1, "equal", v, 1, 0, FALSE) /\ x_api_key' = NoKey
    \/ \E d \in DeviceIds, t \in InlineTemps, p \in {NoProbe, 1, 2} :
          ProcessTemperatureUpdate(d, <<[probe_id |-> p, temperature |-> t]>>, None)
             /\ x_api_key' = NoKey

SpecInline == Init /\ [][NextInline]_vars

\* C22: a store_temperature_reading call writes exactly one Notification for
\* each active trigger whose device scope is the reading's device, whose probe
\* scope is absent or the reading's probe, and whose condition holds ("equal"
\* meaning exactly equal); each has channel 'app' and the user of the
\* trigger's NotificationSetting, whatever that user's channel flags are.
C22_InlineTriggerWritesAppRow ==
    [][ ( /\ last'.op = "process_temperature_update"
          /\ last'.status = "ok"
          /\ now' = now
          /\ Len(last'.request.readings) = 1
          /\ last'.request.readings[1].temperature # None
          /\ last'.request.average_temperature = None )
        => LET r == last'.request.readings[1]
               t == r.temperature
               dev == CHOOSE i \in DOMAIN devices : devices[i].device_id = last'.device_id
               probe == {i \in DOMAIN probes : probes[i].probe_id = r.probe_id}
               k == Len(notifications)
               firing == {i \in DOMAIN triggers :
                            /\ triggers[i].is_active
                            /\ triggers[i].device_id = dev
                            /\ triggers[i].probe_id \in {0} \cup probe
                            /\ \/ triggers[i].condition_type = "above"
                                  /\ t > triggers[i].threshold_value
                               \/ triggers[i].condition_type = "below"
                                  /\ t < triggers[i].threshold_value
                               \/ triggers[i].condition_type = "equal"
                                  /\ t = triggers[i].threshold_value}
           IN  /\ Len(notifications') = k + Cardinality(firing)
               /\ \A j \in 1 .. k : notifications'[j] = notifications[j]
               /\ \A i \in firing :
                     Cardinality({j \in (k + 1) .. Len(notifications') :
                        /\ notifications'[j].channel = "app"
                        /\ notifications'[j].user_id =
                              settings[triggers[i].notification_setting_id].user_id
                        /\ notifications'[j].title =
                              <<"Temperature", triggers[i].condition_type,
                                triggers[i].threshold_value>>
                        /\ notifications'[j].device_id = dev
                        /\ notifications'[j].probe_id \in {0} \cup probe}) >= 1
      ]_vars

\* C22's case: the owner has push and email switched off, and a reading on
\* the threshold of an "equal" trigger has written an 'app' row for that owner.
C22_Witness ==
    /\ last.op = "process_temperature_update"
    /\ last.status = "ok"
    /\ Len(last.request.readings) = 1
    /\ last.request.readings[1].temperature = 150
    /\ Len(notifications) = 1
    /\ notifications[1].channel = "app"
    /\ notifications[1].title[2] = "equal"
    /\ SettingsPk(notifications[1].user_id) # 0
    /\ ~settings[SettingsPk(notifications[1].user_id)].push_enabled
    /\ ~settings[SettingsPk(notifications[1].user_id)].email_enabled
    /\ Len(readings) = 1

\* A process_temperature_update step that is one store_temperature_reading
\* call: one entry with a temperature, no average.
OneStoreStep ==
    /\ last'.op = "process_temperature_update"
    /\ now' = now
    /\ Len(last'.request.readings) = 1
    /\ last'.request.readings[1].temperature # None
    /\ last'.request.average_temperature = None

\* C23: store_temperature_reading fails exactly when its device_id matches no
\* device or its probe_id matches no probe, and then changes nothing: no
\* reading, no last_connected or is_connected value, no notification.
C23_UnknownDeviceOrProbeChangesNothing ==
    [][ OneStoreStep
        => LET p == last'.request.readings[1].probe_id
               unknown ==
                  \/ \A i \in DOMAIN devices : devices[i].device_id # last'.device_id
                  \/ p # NoProbe /\ \A i \in DOMAIN probes : probes[i].probe_id # p
           IN  /\ unknown <=> last'.status = "value_error"
               /\ unknown => /\ readings' = readings
                             /\ devices' = devices
                             /\ probes' = probes
                             /\ notifications' = notifications
      ]_vars

\* C23's case: a reading for an unknown probe of a known device that has a
\* device-wide active trigger and earlier readings was refused.
C23_Witness ==
    /\ last.op = "process_temperature_update"
    /\ last.status = "value_error"
    /\ DevicePk(last.device_id) # 0
    /\ last.request.readings[1].probe_id # NoProbe
    /\ ProbePk(last.request.readings[1].probe_id) = 0
    /\ \E i \in DOMAIN triggers :
          /\ triggers[i].is_active /\ triggers[i].probe_id = 0
          /\ triggers[i].device_id = DevicePk(last.device_id)
          /\ triggers[i].condition_type = "equal"
          /\ triggers[i].threshold_value = last.request.readings[1].temperature
    /\ Len(readings) = 1

(***************************************************************************)
(* routes/temperature_routes.add_probe_readings_batch: the rows are built  *)
(* from the request as it is and inserted in one commit.  device_id and    *)
(* probe_id are the foreign keys themselves; a key with no row fails the   *)
(* commit.  The entries considered carry the current time as timestamp.    *)
(***************************************************************************)
ForeignKeysOk(entry) ==
    /\ entry.device_id \in DOMAIN devices
    /\ entry.probe_id \in {0} \cup DOMAIN probes

AddProbeReadingsBatch(batch) ==
    /\ Len(readings) + Len(batch) <= MaxReadings
    /\ UNCHANGED <<now, ticks, devices, api_keys, probes, targets, users, settings,
                   triggers, notifications, owners, user_tokens, used_tokens, sessions>>
    /\ IF \E i \in DOMAIN batch : ~ForeignKeysOk(batch[i])
       THEN /\ last' = Resp("add_probe_readings_batch", "integrity_error", <<>>)
            /\ UNCHANGED readings
       ELSE /\ readings' = readings \o
                  [i \in DOMAIN batch |->
                      [temperature |-> batch[i].temperature,
                       device_id |-> batch[i].device_id,
                       probe_id |-> batch[i].probe_id,
                       is_average |-> batch[i].is_average,
                       timestamp |-> now]]
            /\ last' = [Resp("add_probe_readings_batch", "ok", <<>>) EXCEPT
                          !.pk = Len(batch)]

(***************************************************************************)
(* SpecRaw: two devices and their probes; readings arrive through the      *)
(* temperature update and through the batch route while time passes.       *)
(***************************************************************************)
RawEntries == [temperature : {70}, is_average : {FALSE},
               device_id : 1 .. 2, probe_id : 0 .. 2]

NextRaw ==
    \/ Tick(1)
    \/ \E d \in DeviceIds : RegisterDevice(d, "CCT-100", "1.0", NoName) /\ x_api_key' = NoKey
    \/ \E p \in {1, 2}, d \in DeviceIds :
          RegisterProbe(p, "P-1", d, NoName) /\ x_api_key' = NoKey
    \/ UpdateProbeConnection(DevA, 1, FALSE) /\ x_api_key' = NoKey
    \/ \E d \in DeviceIds, p \in {NoProbe, 1, 2} :
          ProcessTemperatureUpdate(d, <<[probe_id |-> p, temperature |-> 70]>>, None)
             /\ x_api_key' = NoKey
    \/ \E entry \in RawEntries : AddProbeReadingsBatch(<<entry>>) /\ x_api_key' = NoKey

SpecRaw == Init /\ [][NextRaw]_vars

\* The readings rows a step adds.
NewReadings == {i \in DOMAIN readings' : i > Len(readings)}

\* C24: whenever a TemperatureReading row is persisted, through any
\* ingestion entry point, its device's last_connected is the time of the
\* store and, when it carries a probe, that probe is connected and its
\* last_connected is that time.
C24_StoredReadingRefreshesLiveness ==
    [][ \A i \in NewReadings :
          /\ devices'[readings'[i].device_id].last_connected = now'
          /\ readings'[i].probe_id # 0
             => /\ probes'[readings'[i].probe_id].is_connected
                /\ probes'[readings'[i].probe_id].last_connected = now'
      ]_vars

\* C27: every TemperatureReading that carries a probe references, at the time
\* it is stored, a probe that belongs to the reading's own device.
C27_ReadingProbeBelongsToDevice ==
    [][ \A i \in NewReadings :
          readings'[i].probe_id # 0
          => probes'[readings'[i].probe_id].device_id = readings'[i].device_id
      ]_vars

\* C25: a connection_lost notification is created only for an owner of the
\* timed-out device, or of the timed-out probe's device, whose
\* NotificationSetting exists and has connection_alerts = true.
C25_ConnectionLostOnlyWithAlertsOn ==
    [][ CallStep("check_connection_status")
        => \A k \in DOMAIN notifications' :
              ( k > Len(notifications)
                /\ notifications'[k].notification_type = "connection_lost" )
              => LET u == notifications'[k].user_id
                     dev == notifications'[k].device_id
                     pp == notifications'[k].probe_id
                 IN  /\ \E i \in DOMAIN owners :
                           owners[i].user_id = u /\ owners[i].device_id = dev
                     /\ \E sid \in DOMAIN settings :
                           settings[sid].user_id = u /\ settings[sid].connection_alerts
                     /\ \A sid \in DOMAIN settings :
                           settings[sid].user_id = u => settings[sid].connection_alerts
                     /\ IF pp = 0
                        THEN /\ devices[dev].is_active /\ ~devices'[dev].is_active
                             /\ notifications'[k].title = <<"Device Connection Lost">>
                        ELSE /\ probes[pp].is_connected /\ ~probes'[pp].is_connected
                             /\ probes[pp].device_id = dev
                             /\ notifications'[k].title = <<"Probe Connection Lost">>
      ]_vars

\* C25's case: a sweep has timed out a device and a probe of it; its owner,
\* with connection_alerts on, has one notification for each.
C25_Witness ==
    /\ last.op = "check_connection_status"
    /\ Len(notifications) = 2
    /\ notifications[1].title = <<"Device Connection Lost">>
    /\ notifications[2].title = <<"Probe Connection Lost">>
    /\ notifications[1].created_at = now /\ notifications[2].created_at = now
    /\ settings[SettingsPk(notifications[1].user_id)].connection_alerts

(***************************************************************************)
(* temperature_service.get_latest_target_temperature as a request of its   *)
(* own (one query), beside target-setting calls that run step by step.     *)
(***************************************************************************)
GetLatestTargetTemperature(d) ==
    /\ UNCHANGED <<db, now, ticks, user_tokens, used_tokens, sessions>>
    /\ LET latest == LatestTargetCandidates(targets, d)
       IN  \E tt \in IF latest = {} THEN {None}
                     ELSE {targets[i].temperature : i \in latest} :
              last' = [Resp("get_latest_target_temperature", "ok", d) EXCEPT !.temp = tt]

NextLatest ==
    \/ \E d \in DeviceIds : RegisterDevice(d, "CCT-100", "1.0", NoName) /\ x_api_key' = NoKey
    \/ \E p \in Procs, d \in DeviceIds, t \in Temps :
          TargetRead(p, "set_target_temperature", d, t, 0) /\ x_api_key' = NoKey
    \/ \E p \in Procs : TargetDeactivate(p) /\ x_api_key' = NoKey
    \/ \E p \in Procs : TargetInsert(p) /\ x_api_key' = NoKey
    \/ \E d \in DeviceIds : GetLatestTargetTemperature(d) /\ x_api_key' = NoKey
    \/ \E d \in DeviceIds : ProcessTemperatureUpdate(d, <<>>, None) /\ x_api_key' = NoKey

SpecLatest == Init /\ [][NextLatest]_vars

\* C26: once a target temperature has been set for a device, every later
\* get_latest_target_temperature, and the target returned by
\* process_temperature_update, is non-null for that device, also while another
\* target-setting call is between its deactivation and its insert.
C26_LatestTargetNeverNullOnceSet ==
    [][ ( /\ last'.op \in {"get_latest_target_temperature", "process_temperature_update"}
          /\ last'.status = "ok"
          /\ now' = now
          /\ \E i \in DOMAIN targets :
                /\ targets[i].device_id \in DOMAIN devices
                /\ devices[targets[i].device_id].device_id = last'.device_id )
        => last'.temp # None
      ]_vars

(***************************************************************************)
(* routes/user_routes.update_user_device: PATCH /me/devices/{device_id}    *)
(* with an update that carries is_active; u is the current user.           *)
(***************************************************************************)
UpdateUserDevice(u, d, is_active) ==
    /\ UserExists(u)
    /\ UNCHANGED <<now, ticks, api_keys, probes, targets, readings, users, settings,
                   triggers, notifications, owners, user_tokens, used_tokens, sessions>>
    /\ LET dev == DevicePk(d)
       IN  IF dev = 0 \/ ~AssociationExists(u, dev)
           THEN /\ last' = [Resp("update_user_device", "404", d) EXCEPT !.user = u]
                /\ UNCHANGED devices
           ELSE /\ devices' = [devices EXCEPT ![dev].is_active = is_active]
                /\ last' = [Resp("update_user_device", "ok", d) EXCEPT
                              !.user = u, !.pk = dev]

(***************************************************************************)
(* SpecRevive: an owned device goes silent, is swept, reports again, is    *)
(* swept again, and is switched on again by its owner or by registering.   *)
(***************************************************************************)
NextRevive ==
    \/ \E dt \in SweepSteps : Tick(dt)
    \/ RegisterDevice(DevA, "CCT-100", "1.0", NoName) /\ x_api_key' = NoKey
    \/ CreateUser(Alice, "alice@example.com", NoName) /\ x_api_key' = NoKey
    \/ AssociateDeviceWithUser(DevA, 1, NoToken) /\ x_api_key' = NoKey
    \/ \E avg \in {None, 70} : ProcessTemperatureUpdate(DevA, <<>>, avg) /\ x_api_key' = NoKey
    \/ CheckConnectionStatus /\ x_api_key' = NoKey
    \/ \E b \in BOOLEAN : UpdateUserDevice(1, DevA, b) /\ x_api_key' = NoKey

SpecRevive == Init /\ [][NextRevive]_vars

\* C28: a stored reading never changes a device's is_active flag; a device
\* that is inactive is skipped by the sweep, so no further 'Device Connection
\* Lost' notification is sent for it; only register_device and the owner's
\* device update turn is_active on again.
C28_InactiveStaysInactive ==
    [][ /\ last'.op = "process_temperature_update" /\ now' = now
           => \A i \in DOMAIN devices : devices'[i].is_active = devices[i].is_active
        /\ \A i \in DOMAIN devices :
              ~devices[i].is_active /\ devices'[i].is_active
              => last'.op \in {"register_device", "update_user_device"}
        /\ CallStep("check_connection_status")
           => \A k \in DOMAIN notifications' :
                 ( k > Len(notifications)
                   /\ notifications'[k].title = <<"Device Connection Lost">> )
                 => devices[notifications'[k].device_id].is_active
      ]_vars

\* C28's case: a device marked inactive by the sweep has stored a reading
\* since, a later sweep has run, and there is still one notification.
C28_Witness ==
    /\ last.op = "check_connection_status"
    /\ Len(devices) = 1 /\ ~devices[1].is_active
    /\ readings # <<>>
    /\ readings[Len(readings)].timestamp = now
    /\ devices[1].last_connected = now
    /\ Len(notifications) = 1
    /\ notifications[1].title = <<"Device Connection Lost">>

\* C29: a request authenticated with the API key of one device changes no
\* probe of another device: through probe registration, probe connection
\* update or temperature ingestion, the is_connected flag, the last_connected
\* time and the device of a probe that belongs to another device stay as
\* they are.
C29_KeyOfDeviceLeavesOtherProbes ==
    [][ ( /\ last'.op \in {"register_probe", "update_probe_connection",
                           "process_temperature_update"}
          /\ now' = now
          /\ x_api_key' # NoKey
          /\ VerifyDeviceApiKey(x_api_key', last'.device_id) )
        => \A pp \in DOMAIN probes :
              devices[probes[pp].device_id].device_id # x_api_key'.sub
              => /\ probes'[pp].is_connected = probes[pp].is_connected
                 /\ probes'[pp].last_connected = probes[pp].last_connected
                 /\ probes'[pp].device_id = probes[pp].device_id
      ]_vars

(***************************************************************************)
(* SpecPartial: a device with one registered probe and an owner's trigger  *)
(* sends updates that also name a probe nobody registered.                 *)
(***************************************************************************)
PartialEntries == [probe_id : {NoProbe, 1, 2}, temperature : {154, None}]
PartialBatches ==
    {<<r>> : r \in PartialEntries}
       \cup {<<r1, r2>> : r1 \in PartialEntries, r2 \in PartialEntries}

NextPartial ==
    \/ RegisterDevice(DevA, "CCT-100", "1.0", NoName) /\ x_api_key' = NoKey
    \/ RegisterProbe(1, "P-1", DevA, NoName) /\ x_api_key' = NoKey
    \/ UpdateProbeConnection(DevA, 1, FALSE) /\ x_api_key' = NoKey
    \/ CreateUser(Alice, "alice@example.com", NoName) /\ x_api_key' = NoKey
    \/ AssociateDeviceWithUser(DevA, 1, NoToken) /\ x_api_key' = NoKey
    \/ \E v \in TriggerThreshold, pp \in {0, 1} :
          CreateCustomTrigger(1, "above", v, 1, pp, TRUE) /\ x_api_key' = NoKey
    \/ Tick(1)
    \/ \E rds \in PartialBatches, avg \in {None, 75} :
          ProcessTemperatureUpdate(DevA, rds, avg) /\ x_api_key' = NoKey

SpecPartial == Init /\ [][NextPartial]_vars

\* C30: a process_temperature_update call that fails at its k-th reading
\* because that reading's probe is unknown leaves exactly the readings before
\* it persisted, with their liveness updates and the notifications they
\* fired; the later readings and the average are not stored.
C30_FailureKeepsEarlierReadings ==
    [][ ( /\ last'.op = "process_temperature_update"
          /\ last'.status = "value_error"
          /\ now' = now
          /\ \E i \in DOMAIN devices : devices[i].device_id = last'.device_id )
        => LET rds == last'.request.readings
               dev == CHOOSE i \in DOMAIN devices : devices[i].device_id = last'.device_id
               Unknown(i) == /\ rds[i].temperature # None
                             /\ rds[i].probe_id # NoProbe
                             /\ \A q \in DOMAIN probes : probes[q].probe_id # rds[i].probe_id
               failing == {i \in DOMAIN rds : Unknown(i)}
               k == CHOOSE i \in failing : \A j \in failing : i <= j
               before == WithTemperature(SubSeq(rds, 1, k - 1))
               n == Len(before)
               m == Len(readings)
               Fired(j, g) ==
                   /\ triggers[g].is_active
                   /\ triggers[g].device_id = dev
                   /\ \/ triggers[g].probe_id = 0
                      \/ /\ before[j].probe_id # NoProbe
                         /\ probes[triggers[g].probe_id].probe_id = before[j].probe_id
                   /\ \/ triggers[g].condition_type = "above"
                         /\ before[j].temperature > triggers[g].threshold_value
                      \/ triggers[g].condition_type = "below"
                         /\ before[j].temperature < triggers[g].threshold_value
                      \/ triggers[g].condition_type = "equal"
                         /\ before[j].temperature = triggers[g].threshold_value
           IN  /\ failing # {}
               /\ Len(readings') = m + n
               /\ \A j \in 1 .. m : readings'[j] = readings[j]
               /\ \A j \in 1 .. n :
                     /\ readings'[m + j].temperature = before[j].temperature
                     /\ ~readings'[m + j].is_average
                     /\ readings'[m + j].device_id = dev
                     /\ before[j].probe_id # NoProbe
                        => /\ probes[readings'[m + j].probe_id].probe_id = before[j].probe_id
                           /\ probes'[readings'[m + j].probe_id].is_connected
                           /\ probes'[readings'[m + j].probe_id].last_connected = now
               /\ IF n > 0 THEN devices'[dev].last_connected = now
                  ELSE devices' = devices /\ probes' = probes
               /\ Len(notifications') = Len(notifications)
                     + Cardinality({jg \in (1 .. n) \X DOMAIN triggers :
                                       Fired(jg[1], jg[2])})
      ]_vars

\* C30's case: the second reading of an update named an unknown probe; the
\* first reading is stored, its probe connected again, its notification
\* written, and the call failed.
C30_Witness ==
    /\ last.op = "process_temperature_update"
    /\ last.status = "value_error"
    /\ Len(last.request.readings) = 2
    /\ last.request.readings[1].probe_id = 1
    /\ last.request.readings[1].temperature # None
    /\ Len(readings) = 1
    /\ readings[1].timestamp = now /\ now > 0
    /\ readings[1].probe_id # 0
    /\ probes[readings[1].probe_id].is_connected
    /\ probes[readings[1].probe_id].last_connected = now
    /\ Len(notifications) = 1

=============================================================================
